---- MODULE Spec2Model ----
(***************************************************************************)
(* A model of anchor-litesvm: the fluent InstructionBuilder, the           *)
(* TransactionHelpers submit entry points of AnchorContext, and the        *)
(* TransactionResult log accessors, driven against the escrow program the  *)
(* repository's tests exercise.                                            *)
(***************************************************************************)
EXTENDS Integers, Sequences, FiniteSets, TLC

VARIABLES
    builder,    \* the InstructionBuilder under construction, or None once consumed
    built,      \* what the last build() returned, or None
    svm,        \* ctx.svm: the simulated environment owned by the AnchorContext
    call,       \* the submit call made last: entry point and arguments, or None
    sent,       \* the transactions that call handed to svm.send_transaction, in order
    ret,        \* what that call returned: a TransactionResult or a TransactionError
    observed,   \* what the last read-only accessor returned, or None
    hist        \* the calls made on the current builder: its add calls and its args calls

vars == <<builder, built, svm, call, sent, ret, observed, hist>>

\* Option: None and Some(x)
None == [kind |-> "None"]

Some(x) == [kind |-> "Some", value |-> x]

(***************************************************************************)
(* Bounds of the model.                                                    *)
(***************************************************************************)
\* the free exploration of the builder stops at this many accounts
MaxAccounts == 3

\* send_instructions is called with at most this many instructions
MaxBatch == 2

\* the environment moves on to a new latest blockhash at most this many times
MaxBlockhash == 1

\* a TransactionResult whose accessors are read holds at most this many log lines
MaxLogLines == 3

\* a builder whose accessors are read holds at most this many accounts
MaxReadAccounts == 2

(***************************************************************************)
(* Addresses, keypairs and names the calls are drawn from.                 *)
(***************************************************************************)
\* An address is a tuple <<kind, who, mint, seed, of>>: derived addresses (an
\* escrow PDA, an associated token account) are functions of what they are
\* derived from, as the collaborator's derivations are, and distinct inputs
\* give distinct addresses.
Wallet(who) == <<"wallet", who, "", 0, "">>

Mint(m) == <<"mint", "", m, 0, "">>

Program(p) == <<"program", p, "", 0, "">>

SystemProgramId == Program("system_program")

TokenProgramId == Program("spl_token")

AssociatedTokenProgramId == Program("spl_associated_token_account")

RentSysvarId == Program("sysvar_rent")

\* the program the AnchorContext was created for (the escrow program of the tests)
EscrowProgramId == Program("anchor_escrow")

\* some other program, never loaded into the environment
OtherProgramId == Program("other")

\* ctx.find_pda(&[b"escrow", maker, seed.to_le_bytes()])
find_pda(maker, seed) == <<"escrow", maker[2], "", seed, "">>

\* spl_associated_token_account::get_associated_token_address(owner, mint)
get_associated_token_address(owner, mint) ==
    <<"ata", owner[2], mint[3], owner[4], owner[1]>>

\* a Keypair is modelled by the address it signs for
pubkey(keypair) == keypair

Maker == Wallet("maker")

Taker == Wallet("taker")

MintA == Mint("a")

MintB == Mint("b")

(***************************************************************************)
(* Bytes and the argument encodings.                                       *)
(***************************************************************************)
Byte == 0..255

\* u64::to_le_bytes / borsh: the n low bytes of v, least significant first
RECURSIVE to_le_bytes(_, _)
to_le_bytes(v, n) ==
    IF n = 0 THEN <<>> ELSE <<v % 256>> \o to_le_bytes(v \div 256, n - 1)

\* serialize_u64 gone wrong: the 8 bytes most significant first
serialize_u64_big_endian(v) == [i \in 1..8 |-> to_le_bytes(v, 8)[9 - i]]

\* borsh serialisation of a u64: 8 bytes, little-endian, no tag, no padding
serialize_u64(v) == to_le_bytes(v, 8)

\* TupleArgs::serialize gone wrong: the tuple is written as a sequence, its
\* length first as a u32
TupleArgs_serialize_as_vec(t) ==
    to_le_bytes(Len(t), 4)
    \o (CASE Len(t) = 0 -> <<>>
          [] Len(t) = 1 -> serialize_u64(t[1])
          [] Len(t) = 2 -> serialize_u64(t[1]) \o serialize_u64(t[2])
          [] Len(t) = 3 -> serialize_u64(t[1]) \o serialize_u64(t[2])
                               \o serialize_u64(t[3])
          [] Len(t) = 4 -> serialize_u64(t[1]) \o serialize_u64(t[2])
                               \o serialize_u64(t[3]) \o serialize_u64(t[4]))

\* TupleArgs::serialize gone wrong: the second element is written before the first
TupleArgs_serialize_swapped(t) ==
    CASE Len(t) = 0 -> <<>>
      [] Len(t) = 1 -> serialize_u64(t[1])
      [] Len(t) = 2 -> serialize_u64(t[2]) \o serialize_u64(t[1])
      [] Len(t) = 3 -> serialize_u64(t[2]) \o serialize_u64(t[1]) \o serialize_u64(t[3])
      [] Len(t) = 4 -> serialize_u64(t[2]) \o serialize_u64(t[1]) \o serialize_u64(t[3])
                           \o serialize_u64(t[4])

\* TupleArgs<(T1, .., Tk)>::serialize for k = 0..4 with u64 elements: each
\* element is serialised in position order onto the same writer
TupleArgs_serialize(t) ==
    CASE Len(t) = 0 -> <<>>
      [] Len(t) = 1 -> serialize_u64(t[1])
      [] Len(t) = 2 -> serialize_u64(t[1]) \o serialize_u64(t[2])
      [] Len(t) = 3 -> serialize_u64(t[1]) \o serialize_u64(t[2]) \o serialize_u64(t[3])
      [] Len(t) = 4 -> serialize_u64(t[1]) \o serialize_u64(t[2]) \o serialize_u64(t[3])
                           \o serialize_u64(t[4])

\* sha256("global:" ++ name)[..8] for the instruction names in use
calculate_anchor_discriminator(name) ==
    CASE name = "make" -> <<138, 227, 232, 77, 223, 166, 96, 197>>
      [] name = "take" -> <<149, 226, 52, 104, 6, 142, 230, 39>>
      [] name = "test" -> <<163, 36, 134, 53, 232, 223, 146, 222>>
      [] name = "refund" -> <<2, 96, 183, 251, 63, 208, 46, 46>>
      [] name = "initialize" -> <<175, 175, 109, 31, 13, 152, 155, 237>>

\* #[derive(BorshSerialize)] struct MakeArgs { seed, receive, amount }: the
\* fields in declared order
MakeArgs_serialize(a) ==
    serialize_u64(a.seed) \o serialize_u64(a.receive) \o serialize_u64(a.amount)

\* the first 8 bytes of Sha256 of b"global:make", as the tests compute them
\* by hand
sha256_global_make == <<138, 227, 232, 77, 223, 166, 96, 197>>

\* the data the tests put together by hand: discriminator.to_vec(), then
\* extend_from_slice of each value's to_le_bytes()
manual_instruction_data(a) ==
    sha256_global_make
    \o to_le_bytes(a.seed, 8) \o to_le_bytes(a.receive, 8) \o to_le_bytes(a.amount, 8)

(***************************************************************************)
(* InstructionBuilder: every method consumes the builder and returns the   *)
(* next one, so each is an operator from builder to builder.               *)
(***************************************************************************)
AccountMeta_new(key, is_signer) ==
    [pubkey |-> key, is_signer |-> is_signer, is_writable |-> TRUE]

AccountMeta_new_readonly(key, is_signer) ==
    [pubkey |-> key, is_signer |-> is_signer, is_writable |-> FALSE]

\* borrow gone wrong: the method takes self by value and the receiver is gone
borrow_moved(self, value) == [self |-> None, value |-> value]

\* a method taking &self: the receiver after the call, which is the receiver
\* before it, and what the method returned
borrow(self, value) == [self |-> self, value |-> value]

\* HashMap::new() and HashMap::insert on account_indices
HashMap_new == [n \in {} |-> 0]

\* insert gone wrong: a key already in the map keeps its value
HashMap_insert_if_absent(m, k, v) ==
    [n \in DOMAIN m \cup {k} |-> IF n \in DOMAIN m THEN m[n] ELSE v]

HashMap_insert(m, k, v) == [n \in DOMAIN m \cup {k} |-> IF n = k THEN v ELSE m[n]]

\* new gone wrong: the builder is for the system program, whatever was asked
InstructionBuilder_new_system(program_id, instruction_name) ==
    [kind |-> "InstructionBuilder",
     program_id |-> SystemProgramId,
     instruction_name |-> instruction_name,
     accounts |-> <<>>,
     account_indices |-> HashMap_new,
     data |-> <<>>]

InstructionBuilder_new(program_id, instruction_name) ==
    [kind |-> "InstructionBuilder",
     program_id |-> program_id,
     instruction_name |-> instruction_name,
     accounts |-> <<>>,
     account_indices |-> HashMap_new,
     data |-> <<>>]

\* push_account gone wrong: the new entry goes in front of the list
push_account_front(self, name, meta) ==
    LET index == Len(self.accounts)
    IN [self EXCEPT !.accounts = <<[name |-> name, meta |-> meta]>> \o @,
                    !.account_indices = HashMap_insert(@, name, index)]

\* push_account gone wrong: the position is read after the push
push_account_late_index(self, name, meta) ==
    LET pushed == Append(self.accounts, [name |-> name, meta |-> meta])
    IN [self EXCEPT !.accounts = pushed,
                    !.account_indices = HashMap_insert(@, name, Len(pushed))]

\* the body shared by account, account_mut, signer and signer_readonly:
\* index is accounts.len() before the push (0-based), then push, then insert
push_account(self, name, meta) ==
    LET index == Len(self.accounts)
    IN [self EXCEPT !.accounts = Append(@, [name |-> name, meta |-> meta]),
                    !.account_indices = HashMap_insert(@, name, index)]

account(self, name, key) ==
    push_account(self, name, AccountMeta_new_readonly(key, FALSE))

account_mut(self, name, key) ==
    push_account(self, name, AccountMeta_new(key, FALSE))

signer(self, name, keypair) ==
    push_account(self, name, AccountMeta_new(pubkey(keypair), TRUE))

\* signer_readonly gone wrong: the entry is writable
signer_readonly_writable(self, name, keypair) ==
    push_account(self, name, AccountMeta_new(pubkey(keypair), TRUE))

signer_readonly(self, name, keypair) ==
    push_account(self, name, AccountMeta_new_readonly(pubkey(keypair), TRUE))

system_program(self) == account(self, "system_program", SystemProgramId)

token_program(self) == account(self, "token_program", TokenProgramId)

associated_token_program(self) ==
    account(self, "associated_token_program", AssociatedTokenProgramId)

rent_sysvar(self) == account(self, "rent", RentSysvarId)

\* args gone wrong: the selector is derived from the name only for the escrow
\* program, other programs get the selector of "initialize"
args_selector_by_program(self, value) ==
    LET discriminator ==
            IF self.program_id = EscrowProgramId
            THEN calculate_anchor_discriminator(self.instruction_name)
            ELSE calculate_anchor_discriminator("initialize")
    IN [self EXCEPT !.data = discriminator \o TupleArgs_serialize(value)]

\* args gone wrong: the selector and the arguments go after what data held
args_extending(self, value) ==
    LET discriminator == calculate_anchor_discriminator(self.instruction_name)
    IN [self EXCEPT !.data = @ \o discriminator \o TupleArgs_serialize(value)]

\* args: data = discriminator.to_vec(), then args.serialize(&mut data)
args(self, value) ==
    LET discriminator == calculate_anchor_discriminator(self.instruction_name)
    IN [self EXCEPT !.data = discriminator \o TupleArgs_serialize(value)]

NoDataMessage == "No instruction data provided. Call .args() before .build()"

\* the metas of the (name, meta) pairs, in list order
RECURSIVE metas_of(_, _)
metas_of(accounts, i) ==
    IF i > Len(accounts) THEN <<>>
    ELSE <<accounts[i].meta>> \o metas_of(accounts, i + 1)

\* build gone wrong: no check that data was provided
build_unchecked(self) ==
    [kind |-> "Ok",
     ix |-> [program_id |-> self.program_id,
             accounts |-> metas_of(self.accounts, 1),
             data |-> self.data]]

\* build: Err when data is empty, else the Instruction
build(self) ==
    IF self.data = <<>>
    THEN [kind |-> "Err", err |-> NoDataMessage]
    ELSE [kind |-> "Ok",
          ix |-> [program_id |-> self.program_id,
                  accounts |-> metas_of(self.accounts, 1),
                  data |-> self.data]]

\* get_account: account_indices.get(name), then accounts.get(index), then the meta
get_account(self, name) ==
    IF name \notin DOMAIN self.account_indices THEN None
    ELSE LET index == self.account_indices[name]
         IN IF index + 1 > Len(self.accounts) THEN None
            ELSE Some(self.accounts[index + 1].meta)

\* accounts(): the metas, in list order
accounts_of(self) == metas_of(self.accounts, 1)

(***************************************************************************)
(* The simulated environment (LiteSVM) with the escrow program loaded.     *)
(* Its state: the latest blockhash, the token accounts that exist with     *)
(* their balances, and the escrow accounts that exist.                     *)
(***************************************************************************)
\* function update and removal, for the account stores
store_put(f, k, v) == [x \in DOMAIN f \cup {k} |-> IF x = k THEN v ELSE f[x]]

store_del(f, k) == [x \in DOMAIN f \ {k} |-> f[x]]

Range(seq) == {seq[i] : i \in DOMAIN seq}

\* u64::from_le_bytes on the bytes of a borsh-encoded u64
RECURSIVE from_le_bytes(_, _)
from_le_bytes(bytes, i) ==
    IF i > Len(bytes) THEN 0 ELSE bytes[i] + 256 * from_le_bytes(bytes, i + 1)

\* svm.latest_blockhash()
latest_blockhash(env) == env.blockhash

\* svm.expire_blockhash(): the environment moves on to a new latest blockhash
expire_blockhash(env) == [env EXCEPT !.blockhash = @ + 1]

\* a key signed the transaction / is writable in the transaction's message
tx_is_signer(tx, key) == key \in Range(tx.signers)

tx_is_writable(tx, key) ==
    \/ key = tx.payer
    \/ \E i \in DOMAIN tx.instructions :
          \E j \in DOMAIN tx.instructions[i].accounts :
             /\ tx.instructions[i].accounts[j].pubkey = key
             /\ tx.instructions[i].accounts[j].is_writable

ProgramErr(e) == [kind |-> "Err", err |-> e]

LogMake ==
    <<"P", "r", "o", "g", "r", "a", "m", " ", "l", "o", "g", ":", " ", "I", "n", "s",
      "t", "r", "u", "c", "t", "i", "o", "n", ":", " ", "M", "a", "k", "e">>

LogTake ==
    <<"P", "r", "o", "g", "r", "a", "m", " ", "l", "o", "g", ":", " ", "I", "n", "s",
      "t", "r", "u", "c", "t", "i", "o", "n", ":", " ", "T", "a", "k", "e">>

\* make gone wrong: the vault is credited and the maker's token account is
\* left as it was
escrow_make_without_debit(env, tx, ix) ==
    IF Len(ix.accounts) < 9 \/ Len(ix.data) < 32 \/ ~tx_is_signer(tx, ix.accounts[1].pubkey)
    THEN ProgramErr("Rejected")
    ELSE LET seed == from_le_bytes(SubSeq(ix.data, 9, 16), 1)
             maker == ix.accounts[1].pubkey
             escrow == ix.accounts[2].pubkey
         IN IF escrow # find_pda(maker, seed) \/ escrow \in DOMAIN env.escrow
               \/ ix.accounts[5].pubkey \notin DOMAIN env.token
            THEN ProgramErr("Rejected")
            ELSE [kind |-> "Ok",
                  log |-> LogMake,
                  svm |-> [env EXCEPT
                      !.escrow = store_put(@, escrow,
                          [seed |-> seed, maker |-> maker,
                           mint_a |-> ix.accounts[3].pubkey,
                           mint_b |-> ix.accounts[4].pubkey,
                           receive |-> from_le_bytes(SubSeq(ix.data, 17, 24), 1)]),
                      !.token = store_put(@, ix.accounts[6].pubkey,
                                          from_le_bytes(SubSeq(ix.data, 25, 32), 1))]]

\* escrow program, make(seed, receive, amount) over the accounts
\* maker, escrow, mint_a, mint_b, maker_ata_a, vault, associated_token_program,
\* token_program, system_program: creates the escrow account and the vault and
\* moves amount of mint A from the maker's token account into the vault
escrow_make(env, tx, ix) ==
    IF Len(ix.accounts) < 9 THEN ProgramErr("NotEnoughAccountKeys")
    ELSE IF Len(ix.data) < 32 THEN ProgramErr("InstructionDidNotDeserialize")
    ELSE
    LET key(i) == ix.accounts[i].pubkey
        seed == from_le_bytes(SubSeq(ix.data, 9, 16), 1)
        receive == from_le_bytes(SubSeq(ix.data, 17, 24), 1)
        amount == from_le_bytes(SubSeq(ix.data, 25, 32), 1)
        maker == key(1)
        escrow == key(2)
        mint_a == key(3)
        mint_b == key(4)
        maker_ata_a == key(5)
        vault == key(6)
    IN  IF ~tx_is_signer(tx, maker) THEN ProgramErr("AccountNotSigner")
        ELSE IF \E k \in {maker, escrow, maker_ata_a, vault} : ~tx_is_writable(tx, k)
             THEN ProgramErr("ConstraintMut")
        ELSE IF escrow # find_pda(maker, seed) THEN ProgramErr("ConstraintSeeds")
        ELSE IF escrow \in DOMAIN env.escrow THEN ProgramErr("AccountAlreadyInUse")
        ELSE IF mint_a[1] # "mint" \/ mint_b[1] # "mint"
             THEN ProgramErr("AccountOwnedByWrongProgram")
        ELSE IF maker_ata_a # get_associated_token_address(maker, mint_a)
                \/ vault # get_associated_token_address(escrow, mint_a)
             THEN ProgramErr("ConstraintAssociated")
        ELSE IF key(7) # AssociatedTokenProgramId \/ key(8) # TokenProgramId
                \/ key(9) # SystemProgramId
             THEN ProgramErr("InvalidProgramId")
        ELSE IF maker_ata_a \notin DOMAIN env.token
             THEN ProgramErr("AccountNotInitialized")
        ELSE IF env.token[maker_ata_a] < amount THEN ProgramErr("InsufficientFunds")
        ELSE [kind |-> "Ok",
              log |-> LogMake,
              svm |-> [env EXCEPT
                  !.escrow = store_put(@, escrow,
                      [seed |-> seed, maker |-> maker, mint_a |-> mint_a,
                       mint_b |-> mint_b, receive |-> receive]),
                  !.token = store_put(
                      store_put(@, maker_ata_a, @[maker_ata_a] - amount),
                      vault, amount)]]

\* what a token account holds, 0 when it does not exist yet (init_if_needed)
balance_or_zero(token, a) == IF a \in DOMAIN token THEN token[a] ELSE 0

\* take gone wrong: the vault is closed with the deposit still in it
escrow_take_vault_lost(env, tx, ix) ==
    IF Len(ix.accounts) < 12 \/ ~tx_is_signer(tx, ix.accounts[1].pubkey)
    THEN ProgramErr("Rejected")
    ELSE LET escrow == ix.accounts[3].pubkey
             vault == ix.accounts[6].pubkey
             taker_ata_b == ix.accounts[8].pubkey
             maker_ata_b == ix.accounts[9].pubkey
         IN IF escrow \notin DOMAIN env.escrow \/ vault \notin DOMAIN env.token
               \/ balance_or_zero(env.token, taker_ata_b) < env.escrow[escrow].receive
            THEN ProgramErr("Rejected")
            ELSE LET receive == env.escrow[escrow].receive
                     paid == store_put(
                                 store_put(env.token, taker_ata_b,
                                           env.token[taker_ata_b] - receive),
                                 maker_ata_b,
                                 balance_or_zero(env.token, maker_ata_b) + receive)
                 IN [kind |-> "Ok",
                     log |-> LogTake,
                     svm |-> [env EXCEPT !.escrow = store_del(@, escrow),
                                         !.token = store_del(paid, vault)]]

\* take gone wrong: what the taker holds is not checked, the taker pays what
\* is there
escrow_take_unchecked(env, tx, ix) ==
    IF Len(ix.accounts) < 12 \/ ~tx_is_signer(tx, ix.accounts[1].pubkey)
    THEN ProgramErr("Rejected")
    ELSE LET escrow == ix.accounts[3].pubkey
             vault == ix.accounts[6].pubkey
             taker_ata_a == ix.accounts[7].pubkey
             taker_ata_b == ix.accounts[8].pubkey
             maker_ata_b == ix.accounts[9].pubkey
         IN IF escrow \notin DOMAIN env.escrow \/ vault \notin DOMAIN env.token
            THEN ProgramErr("Rejected")
            ELSE LET held == balance_or_zero(env.token, taker_ata_b)
                     receive == IF held < env.escrow[escrow].receive
                                THEN held ELSE env.escrow[escrow].receive
                     paid == store_put(
                                 store_put(env.token, taker_ata_b, held - receive),
                                 maker_ata_b,
                                 balance_or_zero(env.token, maker_ata_b) + receive)
                     out == store_put(paid, taker_ata_a,
                                      balance_or_zero(paid, taker_ata_a) + env.token[vault])
                 IN [kind |-> "Ok",
                     log |-> LogTake,
                     svm |-> [env EXCEPT !.escrow = store_del(@, escrow),
                                         !.token = store_del(out, vault)]]

\* take gone wrong: the taker is paid out of the vault and pays nothing
escrow_take_unpaid(env, tx, ix) ==
    IF Len(ix.accounts) < 12 \/ ~tx_is_signer(tx, ix.accounts[1].pubkey)
    THEN ProgramErr("Rejected")
    ELSE LET escrow == ix.accounts[3].pubkey
             vault == ix.accounts[6].pubkey
             taker_ata_a == ix.accounts[7].pubkey
         IN IF escrow \notin DOMAIN env.escrow \/ vault \notin DOMAIN env.token
            THEN ProgramErr("Rejected")
            ELSE [kind |-> "Ok",
                  log |-> LogTake,
                  svm |-> [env EXCEPT
                      !.escrow = store_del(@, escrow),
                      !.token = store_del(
                          store_put(@, taker_ata_a,
                                    balance_or_zero(@, taker_ata_a) + @[vault]),
                          vault)]]

\* escrow program, take() over the accounts taker, maker, escrow, mint_a, mint_b,
\* vault, taker_ata_a, taker_ata_b, maker_ata_b, associated_token_program,
\* token_program, system_program: pays receive of mint B from the taker to the
\* maker, pays the vault out to the taker and closes the vault and the escrow
escrow_take(env, tx, ix) ==
    IF Len(ix.accounts) < 12 THEN ProgramErr("NotEnoughAccountKeys")
    ELSE
    LET key(i) == ix.accounts[i].pubkey
        taker == key(1)
        maker == key(2)
        escrow == key(3)
        mint_a == key(4)
        mint_b == key(5)
        vault == key(6)
        taker_ata_a == key(7)
        taker_ata_b == key(8)
        maker_ata_b == key(9)
    IN  IF ~tx_is_signer(tx, taker) THEN ProgramErr("AccountNotSigner")
        ELSE IF \E k \in {taker, maker, escrow, vault, taker_ata_a, taker_ata_b,
                          maker_ata_b} : ~tx_is_writable(tx, k)
             THEN ProgramErr("ConstraintMut")
        ELSE IF escrow \notin DOMAIN env.escrow THEN ProgramErr("AccountNotInitialized")
        ELSE IF env.escrow[escrow].maker # maker \/ env.escrow[escrow].mint_a # mint_a
                \/ env.escrow[escrow].mint_b # mint_b
             THEN ProgramErr("ConstraintHasOne")
        ELSE IF vault # get_associated_token_address(escrow, mint_a)
                \/ taker_ata_a # get_associated_token_address(taker, mint_a)
                \/ taker_ata_b # get_associated_token_address(taker, mint_b)
                \/ maker_ata_b # get_associated_token_address(maker, mint_b)
             THEN ProgramErr("ConstraintAssociated")
        ELSE IF key(10) # AssociatedTokenProgramId \/ key(11) # TokenProgramId
                \/ key(12) # SystemProgramId
             THEN ProgramErr("InvalidProgramId")
        ELSE IF balance_or_zero(env.token, taker_ata_b) < env.escrow[escrow].receive
             THEN ProgramErr("InsufficientFunds")
        ELSE
        LET receive == env.escrow[escrow].receive
            amount == env.token[vault]
            paid == store_put(
                        store_put(env.token, taker_ata_b,
                                  balance_or_zero(env.token, taker_ata_b) - receive),
                        maker_ata_b, balance_or_zero(env.token, maker_ata_b) + receive)
            out == store_put(paid, taker_ata_a, balance_or_zero(paid, taker_ata_a) + amount)
        IN [kind |-> "Ok",
            log |-> LogTake,
            svm |-> [env EXCEPT !.escrow = store_del(@, escrow),
                                !.token = store_del(out, vault)]]

\* the environment runs one instruction: only the escrow program is loaded,
\* and it dispatches on the 8-byte discriminator at the head of the data
process_instruction(env, tx, ix) ==
    IF ix.program_id # EscrowProgramId THEN ProgramErr("InvalidProgramForExecution")
    ELSE IF Len(ix.data) < 8 THEN ProgramErr("InstructionFallbackNotFound")
    ELSE IF SubSeq(ix.data, 1, 8) = calculate_anchor_discriminator("make")
         THEN escrow_make(env, tx, ix)
    ELSE IF SubSeq(ix.data, 1, 8) = calculate_anchor_discriminator("take")
         THEN escrow_take(env, tx, ix)
    ELSE ProgramErr("InstructionFallbackNotFound")

\* the instructions of a transaction from the i-th on, each run on the state
\* the one before it left; the first failure ends the run
RECURSIVE process_message(_, _, _, _)
process_message(env, tx, i, logs) ==
    IF i > Len(tx.instructions) THEN [kind |-> "Ok", svm |-> env, logs |-> logs]
    ELSE LET r == process_instruction(env, tx, tx.instructions[i])
         IN IF r.kind = "Err" THEN [kind |-> "Err", err |-> r.err, logs |-> logs]
            ELSE process_message(r.svm, tx, i + 1, Append(logs, r.log))

\* svm.send_transaction(tx): all of the transaction's instructions or none.
\* Ok carries the TransactionMetadata and the environment after the
\* transaction; Err carries the FailedTransactionMetadata and leaves the
\* environment as it was.
send_transaction(env, tx) ==
    IF tx.recent_blockhash # env.blockhash
    THEN [kind |-> "Err", svm |-> env,
          failed |-> [err |-> "BlockhashNotFound", meta |-> [logs |-> <<>>]]]
    ELSE LET r == process_message(env, tx, 1, <<>>)
         IN IF r.kind = "Ok"
            THEN [kind |-> "Ok", svm |-> r.svm, meta |-> [logs |-> r.logs]]
            ELSE [kind |-> "Err", svm |-> env,
                  failed |-> [err |-> r.err, meta |-> [logs |-> r.logs]]]

(***************************************************************************)
(* TransactionResult, TransactionError and the submit entry points.        *)
(***************************************************************************)
TransactionResult_new(result, instruction_name) ==
    [kind |-> "TransactionResult", inner |-> result, instruction_name |-> instruction_name]

ExecutionFailed(msg) == [kind |-> "ExecutionFailed", msg |-> msg]

BuildError(msg) == [kind |-> "BuildError", msg |-> msg]

NoSignersMessage == "No signers provided"

\* A formatted String is the tuple of the pieces it is put together from.
\* format!("{:?}", e) of the environment's FailedTransactionMetadata
fmt_debug(e) ==
    <<"FailedTransactionMetadata { err: ", e.err, ", meta: ", e.meta, " }">>

\* e.to_string() of a message
to_string(e) == <<e>>

\* Transaction::new_signed_with_payer(instructions, Some(payer), signers, blockhash)
Transaction_new_signed_with_payer(instructions, payer, signers, recent_blockhash) ==
    [instructions |-> instructions,
     payer |-> payer,
     signers |-> [i \in DOMAIN signers |-> pubkey(signers[i])],
     recent_blockhash |-> recent_blockhash]

\* What a submit entry point leaves behind: the value it returns, the
\* environment after it, and the transactions it handed to the environment.
Outcome(r, env, txs) == [ret |-> r, svm |-> env, sent |-> txs]

\* submit gone wrong: a rejected transaction still yields a TransactionResult
submit_result_on_failure(env, tx, instruction_name) ==
    LET r == send_transaction(env, tx)
    IN IF r.kind = "Ok"
       THEN Outcome(TransactionResult_new(r.meta, instruction_name), r.svm, <<tx>>)
       ELSE Outcome(TransactionResult_new(r.failed.meta, instruction_name), r.svm, <<tx>>)

\* submit gone wrong: a rejected transaction is sent a second time
submit_retry(env, tx, instruction_name) ==
    LET r == send_transaction(env, tx)
    IN IF r.kind = "Ok"
       THEN Outcome(TransactionResult_new(r.meta, instruction_name), r.svm, <<tx>>)
       ELSE LET again == send_transaction(r.svm, tx)
            IN IF again.kind = "Ok"
               THEN Outcome(TransactionResult_new(again.meta, instruction_name),
                            again.svm, <<tx, tx>>)
               ELSE Outcome(ExecutionFailed(fmt_debug(again.failed)), again.svm,
                            <<tx, tx>>)

\* the match on svm.send_transaction(tx), with the name to attach on success
submit(env, tx, instruction_name) ==
    LET r == send_transaction(env, tx)
    IN IF r.kind = "Ok"
       THEN Outcome(TransactionResult_new(r.meta, instruction_name), r.svm, <<tx>>)
       ELSE Outcome(ExecutionFailed(fmt_debug(r.failed)), r.svm, <<tx>>)

\* payer_of gone wrong: the last signer pays
payer_of_last(signers) == pubkey(signers[Len(signers)])

\* the fee payer send_instructions picks
payer_of(signers) == pubkey(signers[1])

\* send_instructions gone wrong: no check of the signer list, the maker pays
\* when nobody signs
send_instructions_default_payer(env, instructions, signers) ==
    LET payer == IF signers = <<>> THEN Maker ELSE payer_of(signers)
        tx == Transaction_new_signed_with_payer(
                  instructions, payer, signers, latest_blockhash(env))
    IN submit(env, tx, None)

\* send_instructions gone wrong: one transaction per instruction
RECURSIVE send_one_by_one(_, _, _, _, _)
send_one_by_one(env, instructions, signers, i, acc) ==
    IF i > Len(instructions) THEN acc
    ELSE LET tx == Transaction_new_signed_with_payer(
                       <<instructions[i]>>, payer_of(signers), signers,
                       latest_blockhash(env))
             o == submit(env, tx, None)
             merged == Outcome(o.ret, o.svm, acc.sent \o o.sent)
         IN IF o.ret.kind = "TransactionResult"
            THEN send_one_by_one(o.svm, instructions, signers, i + 1, merged)
            ELSE merged

send_instructions_one_by_one(env, instructions, signers) ==
    IF signers = <<>>
    THEN Outcome(BuildError(to_string(NoSignersMessage)), env, <<>>)
    ELSE send_one_by_one(env, instructions, signers, 1,
             Outcome(TransactionResult_new([logs |-> <<>>], None), env, <<>>))

\* send_instructions gone wrong: the block reference is the one the
\* environment started with, kept from call to call
send_instructions_kept_blockhash(env, instructions, signers) ==
    IF signers = <<>>
    THEN Outcome(BuildError(to_string(NoSignersMessage)), env, <<>>)
    ELSE LET payer == payer_of(signers)
             tx == Transaction_new_signed_with_payer(instructions, payer, signers, 0)
         IN submit(env, tx, None)

\* TransactionHelpers::send_instructions
send_instructions(env, instructions, signers) ==
    IF signers = <<>>
    THEN Outcome(BuildError(to_string(NoSignersMessage)), env, <<>>)
    ELSE LET payer == payer_of(signers)
             tx == Transaction_new_signed_with_payer(
                       instructions, payer, signers, latest_blockhash(env))
         IN submit(env, tx, None)

\* TransactionHelpers::send_instruction
send_instruction(env, instruction, signers) ==
    send_instructions(env, <<instruction>>, signers)

\* the keys of the entries from the i-th on that are marked as signers and
\* are not among those already there
RECURSIVE kept_signers(_, _, _)
kept_signers(accounts, i, have) ==
    IF i > Len(accounts) THEN <<>>
    ELSE LET k == accounts[i].meta.pubkey
         IN IF accounts[i].meta.is_signer /\ k \notin have
            THEN <<k>> \o kept_signers(accounts, i + 1, have \cup {k})
            ELSE kept_signers(accounts, i + 1, have)

\* execute gone wrong: the keypairs given to signer() and signer_readonly()
\* sign too, whether or not they are in the signer list
builder_execute_own_signers(self, env, signers) ==
    LET instruction_name == self.instruction_name
        b == build(self)
        all == signers \o kept_signers(self.accounts, 1, Range(signers))
    IN IF b.kind = "Err"
       THEN Outcome(BuildError(to_string(b.err)), env, <<>>)
       ELSE IF all = <<>>
       THEN Outcome(BuildError(to_string(NoSignersMessage)), env, <<>>)
       ELSE LET tx == Transaction_new_signed_with_payer(
                          <<b.ix>>, pubkey(all[1]), all, latest_blockhash(env))
            IN submit(env, tx, Some(instruction_name))

\* execute gone wrong: the signer list is checked before the build
builder_execute_signers_first(self, env, signers) ==
    LET instruction_name == self.instruction_name
        b == build(self)
    IN IF signers = <<>>
       THEN Outcome(BuildError(to_string(NoSignersMessage)), env, <<>>)
       ELSE IF b.kind = "Err"
       THEN Outcome(BuildError(to_string(b.err)), env, <<>>)
       ELSE LET tx == Transaction_new_signed_with_payer(
                          <<b.ix>>, pubkey(signers[1]), signers, latest_blockhash(env))
            IN submit(env, tx, Some(instruction_name))

\* InstructionBuilder::execute
builder_execute(self, env, signers) ==
    LET instruction_name == self.instruction_name
        b == build(self)
    IN IF b.kind = "Err"
       THEN Outcome(BuildError(to_string(b.err)), env, <<>>)
       ELSE IF signers = <<>>
       THEN Outcome(BuildError(to_string(NoSignersMessage)), env, <<>>)
       ELSE LET tx == Transaction_new_signed_with_payer(
                          <<b.ix>>, pubkey(signers[1]), signers, latest_blockhash(env))
            IN submit(env, tx, Some(instruction_name))

\* AnchorContext::build_instruction(name, accounts, args): the instruction for
\* the context's program with the accounts as given and the data
\* discriminator ++ serialised args
build_instruction(program_id, instruction_name, accounts, value) ==
    [kind |-> "Ok",
     ix |-> [program_id |-> program_id,
             accounts |-> accounts,
             data |-> calculate_anchor_discriminator(instruction_name)
                      \o TupleArgs_serialize(value)]]

\* execute gone wrong: the result is passed on as send_instruction made it
ctx_execute_unnamed(env, program_id, instruction_name, accounts, value, signers) ==
    LET b == build_instruction(program_id, instruction_name, accounts, value)
    IN IF b.kind = "Err"
       THEN Outcome(BuildError(to_string(b.err)), env, <<>>)
       ELSE send_instruction(env, b.ix, signers)

\* TransactionHelpers::execute
ctx_execute(env, program_id, instruction_name, accounts, value, signers) ==
    LET b == build_instruction(program_id, instruction_name, accounts, value)
    IN IF b.kind = "Err"
       THEN Outcome(BuildError(to_string(b.err)), env, <<>>)
       ELSE LET o == send_instruction(env, b.ix, signers)
            IN IF o.ret.kind = "TransactionResult"
               THEN [o EXCEPT !.ret.instruction_name = Some(instruction_name)]
               ELSE o

(***************************************************************************)
(* The account decoder: raw account bytes are an 8-byte tag of the account *)
(* type followed by the fields in the argument encoding.  The account type *)
(* decoded here has two u64 fields, seed and receive.                      *)
(***************************************************************************)
\* the tag expected at the head of an account of the decoded type
EscrowTag == <<31, 213, 123, 187, 186, 22, 218, 155>>

\* the fields read back from the bytes after the tag: the inverse of the
\* argument encoding, failing when the bytes run out
try_deserialize_fields(bytes) ==
    IF Len(bytes) < 16
    THEN [kind |-> "Err", err |-> "DeserializationFailed"]
    ELSE [kind |-> "Ok",
          value |-> [seed |-> from_le_bytes(SubSeq(bytes, 1, 8), 1),
                     receive |-> from_le_bytes(SubSeq(bytes, 9, 16), 1)]]

\* the validating decode gone wrong: the leading bytes are skipped unread
get_anchor_account_unvalidated(raw) ==
    IF Len(raw) < 8
    THEN [kind |-> "Err", err |-> "DeserializationFailed"]
    ELSE try_deserialize_fields(SubSeq(raw, 9, Len(raw)))

\* get_anchor_account: the validating decode
get_anchor_account(raw) ==
    IF Len(raw) < 8 \/ SubSeq(raw, 1, 8) # EscrowTag
    THEN [kind |-> "Err", err |-> "DiscriminatorMismatch"]
    ELSE try_deserialize_fields(SubSeq(raw, 9, Len(raw)))

\* get_anchor_account_unchecked: the decode that skips the comparison
get_anchor_account_unchecked(raw) ==
    IF Len(raw) < 8
    THEN [kind |-> "Err", err |-> "DeserializationFailed"]
    ELSE try_deserialize_fields(SubSeq(raw, 9, Len(raw)))

(***************************************************************************)
(* TransactionResult's log accessors.  A log line is the sequence of its   *)
(* characters, and the str methods the accessors call are computed on      *)
(* that sequence.                                                          *)
(***************************************************************************)
MarkerConsumed ==
    <<"c", "o", "n", "s", "u", "m", "e", "d">>

MarkerComputeUnits ==
    <<"c", "o", "m", "p", "u", "t", "e", " ", "u", "n", "i", "t", "s">>

SeparatorOf ==
    <<"o", "f">>

\* u64::MAX, digit by digit
U64MaxDigits ==
    <<"1", "8", "4", "4", "6", "7", "4", "4", "0", "7", "3", "7", "0", "9", "5",
      "5", "1", "6", "1", "5">>

Digits == {"0", "1", "2", "3", "4", "5", "6", "7", "8", "9"}

Whitespace == {" ", "\t", "\n", "\r", "\f"}

digit_value(c) ==
    CASE c = "0" -> 0 [] c = "1" -> 1 [] c = "2" -> 2 [] c = "3" -> 3
      [] c = "4" -> 4 [] c = "5" -> 5 [] c = "6" -> 6 [] c = "7" -> 7
      [] c = "8" -> 8 [] c = "9" -> 9

\* the position of the first match of pat in s at or after from, or 0
RECURSIVE str_find(_, _, _)
str_find(s, pat, from) ==
    IF from + Len(pat) - 1 > Len(s) THEN 0
    ELSE IF pat = <<>> THEN from
    ELSE IF s[from] = pat[1] /\ SubSeq(s, from, from + Len(pat) - 1) = pat THEN from
    ELSE str_find(s, pat, from + 1)

\* str::contains
str_contains(s, pat) == str_find(s, pat, 1) # 0

\* s.split(pat).nth(1): what lies between the first match and the second,
\* or the end; None when pat does not occur
split_nth_1(s, pat) ==
    LET i == str_find(s, pat, 1)
        rest == SubSeq(s, i + Len(pat), Len(s))
        j == str_find(rest, pat, 1)
    IN  IF i = 0 THEN None
        ELSE Some(IF j = 0 THEN rest ELSE SubSeq(rest, 1, j - 1))

\* s.split(pat).next(): what lies before the first match, or all of s
split_next(s, pat) ==
    LET i == str_find(s, pat, 1)
    IN  Some(IF i = 0 THEN s ELSE SubSeq(s, 1, i - 1))

RECURSIVE trim_start(_)
trim_start(s) ==
    IF s # <<>> /\ Head(s) \in Whitespace THEN trim_start(Tail(s)) ELSE s

RECURSIVE trim_end(_)
trim_end(s) ==
    IF s # <<>> /\ s[Len(s)] \in Whitespace
    THEN trim_end(SubSeq(s, 1, Len(s) - 1))
    ELSE s

\* str::trim
trim(s) == trim_end(trim_start(s))

RECURSIVE strip_zeros(_)
strip_zeros(d) ==
    IF d # <<>> /\ Head(d) = "0" THEN strip_zeros(Tail(d)) ELSE d

\* d <= e for digit sequences of one length
RECURSIVE digits_leq(_, _)
digits_leq(d, e) ==
    IF d = <<>> THEN TRUE
    ELSE IF digit_value(Head(d)) < digit_value(Head(e)) THEN TRUE
    ELSE IF digit_value(Head(d)) > digit_value(Head(e)) THEN FALSE
    ELSE digits_leq(Tail(d), Tail(e))

\* whether the number the digits write is at most u64::MAX
fits_u64(d) ==
    LET z == strip_zeros(d)
    IN  \/ Len(z) < Len(U64MaxDigits)
        \/ Len(z) = Len(U64MaxDigits) /\ digits_leq(z, U64MaxDigits)

RECURSIVE digits_number(_, _)
digits_number(d, acc) ==
    IF d = <<>> THEN acc
    ELSE digits_number(Tail(d), 10 * acc + digit_value(Head(d)))

\* str::parse::<u64>(): an optional "+", then one or more ASCII digits, and
\* the number within u64
parse_u64(s) ==
    LET d == IF s # <<>> /\ Head(s) = "+" THEN Tail(s) ELSE s
    IN  IF d = <<>> \/ \E i \in DOMAIN d : d[i] \notin Digits THEN [kind |-> "Err"]
        ELSE IF ~fits_u64(d) THEN [kind |-> "Err"]
        ELSE [kind |-> "Ok", value |-> digits_number(d, 0)]

\* the body of compute_units' loop for one line: Some(units) when the line
\* makes the method return, None when the loop goes on to the next line
line_units(log) ==
    IF str_contains(log, MarkerConsumed) /\ str_contains(log, MarkerComputeUnits)
    THEN LET consumed_part == split_nth_1(log, MarkerConsumed)
         IN  IF consumed_part = None THEN None
             ELSE LET number_part == split_next(consumed_part.value, SeparatorOf)
                      units == parse_u64(trim(number_part.value))
                  IN  IF units.kind = "Ok" THEN Some(units.value) ELSE None
    ELSE None

RECURSIVE units_from(_, _)
units_from(lines, i) ==
    IF i > Len(lines) THEN 0
    ELSE IF line_units(lines[i]) # None THEN line_units(lines[i]).value
    ELSE units_from(lines, i + 1)

\* TransactionResult::logs
logs(self) == self.inner.logs

\* the lines from the i-th on that start with pattern
RECURSIVE filter_starts_with(_, _, _)
filter_starts_with(lines, pattern, i) ==
    IF i > Len(lines) THEN <<>>
    ELSE (IF Len(pattern) <= Len(lines[i])
             /\ SubSeq(lines[i], 1, Len(pattern)) = pattern
          THEN <<lines[i]>> ELSE <<>>)
         \o filter_starts_with(lines, pattern, i + 1)

\* logs.iter().filter(|log| log.contains(pattern)).collect(), from the i-th line on
RECURSIVE filter_contains(_, _, _)
filter_contains(lines, pattern, i) ==
    IF i > Len(lines) THEN <<>>
    ELSE (IF str_contains(lines[i], pattern) THEN <<lines[i]>> ELSE <<>>)
         \o filter_contains(lines, pattern, i + 1)

\* find_logs gone wrong: the pattern has to start the line
find_logs_starts_with(self, pattern) == filter_starts_with(self.inner.logs, pattern, 1)

\* TransactionResult::find_logs
find_logs(self, pattern) == filter_contains(self.inner.logs, pattern, 1)

\* TransactionResult::has_log
has_log(self, pattern) ==
    \E i \in DOMAIN self.inner.logs : str_contains(self.inner.logs[i], pattern)

\* mutant of compute_units: the last line that yields a number wins
RECURSIVE units_from_end(_, _)
units_from_end(lines, i) ==
    IF i < 1 THEN 0
    ELSE IF line_units(lines[i]) # None THEN line_units(lines[i]).value
    ELSE units_from_end(lines, i - 1)

compute_units_last(self) == units_from_end(self.inner.logs, Len(self.inner.logs))

\* compute_units gone wrong: the scan ends at the first line that holds both
\* markers, whether or not it yields a number
RECURSIVE units_first_marked(_, _)
units_first_marked(lines, i) ==
    IF i > Len(lines) THEN 0
    ELSE IF str_contains(lines[i], MarkerConsumed)
            /\ str_contains(lines[i], MarkerComputeUnits)
    THEN (IF line_units(lines[i]) # None THEN line_units(lines[i]).value ELSE 0)
    ELSE units_first_marked(lines, i + 1)

compute_units_first_marked(self) == units_first_marked(self.inner.logs, 1)

\* TransactionResult::compute_units
compute_units(self) == units_from(self.inner.logs, 1)

(***************************************************************************)
(* What the calls are drawn from.                                          *)
(***************************************************************************)
Keypairs == {Maker, Taker}

\* the free exploration of the builder
FreeNames == {"user", "system_program"}

FreeKeys == {Maker, Taker}

FreeKeypairs == {Maker}

FreeSignerNames == {"user"}

\* (program_id, instruction_name) of InstructionBuilder::new
FreeTargets ==
    {<<EscrowProgramId, "make">>, <<OtherProgramId, "make">>, <<OtherProgramId, "test">>}

FreeArgChoices == {<<>>, <<258>>, <<42, 500000000, 1000000000>>}

\* the escrow flows of the tests
Seeds == {1, 2}

\* what the maker holds of mint A and the taker of mint B before the flows
MakerInitA == 2

TakerInitB == 1

\* what they hold before the batch of escrows made and taken one after another
MakerBatchA == 4

TakerBatchB == 2

\* (seed, receive, amount) of the make calls
MakeArgChoices == {<<1, 1, 1>>, <<1, 2, 1>>, <<2, 1, 2>>, <<2, 1, 3>>}

ArgsFor(name) == IF name = "make" THEN MakeArgChoices ELSE {<<>>}

\* an add call on the builder: the method, and the name and key it adds
AddCall(method, name, key) == [method |-> method, name |-> name, key |-> key]

\* the make instruction's accounts as the tests add them
MakeScript(maker, seed) ==
    LET escrow == find_pda(maker, seed)
    IN <<AddCall("signer", "maker", maker),
         AddCall("account_mut", "escrow", escrow),
         AddCall("account", "mint_a", MintA),
         AddCall("account", "mint_b", MintB),
         AddCall("account_mut", "maker_ata_a", get_associated_token_address(maker, MintA)),
         AddCall("account_mut", "vault", get_associated_token_address(escrow, MintA)),
         AddCall("associated_token_program", "associated_token_program",
                 AssociatedTokenProgramId),
         AddCall("token_program", "token_program", TokenProgramId),
         AddCall("system_program", "system_program", SystemProgramId)>>

\* the take instruction's accounts as the tests add them
TakeScript(taker, maker, seed) ==
    LET escrow == find_pda(maker, seed)
    IN <<AddCall("signer", "taker", taker),
         AddCall("account_mut", "maker", maker),
         AddCall("account_mut", "escrow", escrow),
         AddCall("account", "mint_a", MintA),
         AddCall("account", "mint_b", MintB),
         AddCall("account_mut", "vault", get_associated_token_address(escrow, MintA)),
         AddCall("account_mut", "taker_ata_a", get_associated_token_address(taker, MintA)),
         AddCall("account_mut", "taker_ata_b", get_associated_token_address(taker, MintB)),
         AddCall("account_mut", "maker_ata_b", get_associated_token_address(maker, MintB)),
         AddCall("associated_token_program", "associated_token_program",
                 AssociatedTokenProgramId),
         AddCall("token_program", "token_program", TokenProgramId),
         AddCall("system_program", "system_program", SystemProgramId)>>

ScriptsFor(name) ==
    IF name = "make" THEN {MakeScript(Maker, s) : s \in Seeds}
    ELSE {TakeScript(Taker, Maker, s) : s \in Seeds}

\* the builder method an add call names, applied
apply_add(self, c) ==
    CASE c.method = "account" -> account(self, c.name, c.key)
      [] c.method = "account_mut" -> account_mut(self, c.name, c.key)
      [] c.method = "signer" -> signer(self, c.name, c.key)
      [] c.method = "signer_readonly" -> signer_readonly(self, c.name, c.key)
      [] c.method = "system_program" -> system_program(self)
      [] c.method = "token_program" -> token_program(self)
      [] c.method = "associated_token_program" -> associated_token_program(self)
      [] c.method = "rent_sysvar" -> rent_sysvar(self)

\* a whole script applied to a builder, call by call
RECURSIVE apply_script(_, _, _)
apply_script(self, script, i) ==
    IF i > Len(script) THEN self
    ELSE apply_script(apply_add(self, script[i]), script, i + 1)

\* the instruction a test builds from a script and its arguments
ScriptInstruction(name, script, value) ==
    build(args(apply_script(InstructionBuilder_new(EscrowProgramId, name), script, 1),
               value)).ix

\* the instructions the tests submit
InstructionPool ==
    {ScriptInstruction("make", MakeScript(Maker, a[1]), a) : a \in MakeArgChoices}
    \cup {ScriptInstruction("take", TakeScript(Taker, Maker, s), <<>>) : s \in Seeds}

\* the keys the instructions mark as signers
required_signers(instructions) ==
    UNION {{instructions[i].accounts[j].pubkey :
                j \in {j \in DOMAIN instructions[i].accounts :
                         instructions[i].accounts[j].is_signer}} :
           i \in DOMAIN instructions}

\* The signer lists a call is made with: the empty list, and the lists of
\* distinct keypairs that sign the transaction: every account the
\* instructions mark as a signer signs, and every signer is the payer or
\* such an account.
SignerChoices(instructions) ==
    {<<>>}
    \cup {s \in {<<k>> : k \in Keypairs} \cup (Keypairs \X Keypairs) :
            /\ \A i, j \in DOMAIN s : i # j => s[i] # s[j]
            /\ required_signers(instructions) \subseteq Range(s)
            /\ Range(s) \subseteq required_signers(instructions) \cup {s[1]}}

\* ---- the log lines a TransactionResult is read with ----
\* "Program A consumed 12345 of 200000 compute units"
LineConsumed12345 ==
    <<"P", "r", "o", "g", "r", "a", "m", " ", "A", " ", "c", "o", "n", "s", "u",
      "m", "e", "d", " ", "1", "2", "3", "4", "5", " ", "o", "f", " ", "2", "0",
      "0", "0", "0", "0", " ", "c", "o", "m", "p", "u", "t", "e", " ", "u", "n",
      "i", "t", "s">>

\* "Program B consumed 7 of 200000 compute units"
LineConsumed7 ==
    <<"P", "r", "o", "g", "r", "a", "m", " ", "B", " ", "c", "o", "n", "s", "u",
      "m", "e", "d", " ", "7", " ", "o", "f", " ", "2", "0", "0", "0", "0", "0",
      " ", "c", "o", "m", "p", "u", "t", "e", " ", "u", "n", "i", "t", "s">>

\* "Program A consumed 0 of 200000 compute units"
LineConsumed0 ==
    <<"P", "r", "o", "g", "r", "a", "m", " ", "A", " ", "c", "o", "n", "s", "u",
      "m", "e", "d", " ", "0", " ", "o", "f", " ", "2", "0", "0", "0", "0", "0",
      " ", "c", "o", "m", "p", "u", "t", "e", " ", "u", "n", "i", "t", "s">>

\* "Program A consumed all compute units"
LineNoNumber ==
    <<"P", "r", "o", "g", "r", "a", "m", " ", "A", " ", "c", "o", "n", "s", "u",
      "m", "e", "d", " ", "a", "l", "l", " ", "c", "o", "m", "p", "u", "t", "e",
      " ", "u", "n", "i", "t", "s">>

\* "Program A consumed 99999999999999999999 of 200000 compute units"
LineTooLarge ==
    <<"P", "r", "o", "g", "r", "a", "m", " ", "A", " ", "c", "o", "n", "s", "u",
      "m", "e", "d", " ", "9", "9", "9", "9", "9", "9", "9", "9", "9", "9", "9",
      "9", "9", "9", "9", "9", "9", "9", "9", "9", " ", "o", "f", " ", "2", "0",
      "0", "0", "0", "0", " ", "c", "o", "m", "p", "u", "t", "e", " ", "u", "n",
      "i", "t", "s">>

\* "Program unconsumed consumed 9 of 10 compute units"
LineMarkerInPrefix ==
    <<"P", "r", "o", "g", "r", "a", "m", " ", "u", "n", "c", "o", "n", "s", "u",
      "m", "e", "d", " ", "c", "o", "n", "s", "u", "m", "e", "d", " ", "9", " ",
      "o", "f", " ", "1", "0", " ", "c", "o", "m", "p", "u", "t", "e", " ", "u",
      "n", "i", "t", "s">>

\* "compute units consumed 12"
LineMarkersReversed ==
    <<"c", "o", "m", "p", "u", "t", "e", " ", "u", "n", "i", "t", "s", " ", "c",
      "o", "n", "s", "u", "m", "e", "d", " ", "1", "2">>

\* "Program A consumed 5 of 200000"
LineOneMarker ==
    <<"P", "r", "o", "g", "r", "a", "m", " ", "A", " ", "c", "o", "n", "s", "u",
      "m", "e", "d", " ", "5", " ", "o", "f", " ", "2", "0", "0", "0", "0", "0">>

\* "Program A consumed +3 of 200000 compute units"
LinePlusSign ==
    <<"P", "r", "o", "g", "r", "a", "m", " ", "A", " ", "c", "o", "n", "s", "u",
      "m", "e", "d", " ", "+", "3", " ", "o", "f", " ", "2", "0", "0", "0", "0",
      "0", " ", "c", "o", "m", "p", "u", "t", "e", " ", "u", "n", "i", "t", "s">>

LogLines ==
    {LineConsumed12345, LineConsumed7, LineConsumed0, LineNoNumber, LineTooLarge,
     LineMarkerInPrefix, LineMarkersReversed, LineOneMarker, LinePlusSign, LogMake}

RECURSIVE SeqsUpTo(_, _)
SeqsUpTo(S, n) ==
    IF n = 0 THEN {<<>>}
    ELSE LET shorter == SeqsUpTo(S, n - 1)
         IN  shorter \cup {Append(q, x) : q \in {r \in shorter : Len(r) = n - 1}, x \in S}

LogChoices == SeqsUpTo(LogLines, MaxLogLines)

\* "Instruction: Make"
PatternMake ==
    <<"I", "n", "s", "t", "r", "u", "c", "t", "i", "o", "n", ":", " ", "M", "a",
      "k", "e">>

\* "c.nsumed"
PatternDot ==
    <<"c", ".", "n", "s", "u", "m", "e", "d">>

\* the patterns the logs are searched for; the empty pattern is among them
PatternChoices == {PatternMake, MarkerConsumed, PatternDot, <<>>}

\* the names get_account is asked for; no add call uses the last one
ReadNames == {"user", "system_program", "rent", "missing"}

\* the raw account bytes the decoder is tried on: the right tag, the tag of
\* another type, the tag with its last byte changed, a tag cut short and no
\* tag at all, each followed by two encoded fields, by fields cut short or by
\* nothing
RawChoices ==
    LET heads == {EscrowTag,
                  calculate_anchor_discriminator("make"),
                  [i \in 1..8 |-> IF i = 8 THEN 0 ELSE EscrowTag[i]],
                  SubSeq(EscrowTag, 1, 7),
                  <<>>}
        fields == {serialize_u64(a) \o serialize_u64(b) : a, b \in {0, 1, 258}}
        bodies == fields \cup {SubSeq(f, 1, 15) : f \in fields} \cup {<<>>}
    IN {h \o b : h \in heads, b \in bodies}

\* the values and tuples the encodings are tried on
EncodeValues == {0, 42, 258, 500000000, 1000000000}

EncodeInputs == UNION {[1..k -> EncodeValues] : k \in 0..4}

(***************************************************************************)
(* The state machine.                                                      *)
(***************************************************************************)
\* hist when no builder was created: what new was called with, the add calls,
\* the number of args calls and the value of the last one
NoHist == [new |-> <<>>, adds |-> <<>>, args_calls |-> 0, last_args |-> <<>>]

\* the environment the tests set up: the escrow program loaded, the maker
\* funded with mint A and the taker with mint B
InitSvm ==
    [blockhash |-> 0,
     token |-> (get_associated_token_address(Maker, MintA) :> MakerInitA)
               @@ (get_associated_token_address(Taker, MintB) :> TakerInitB),
     escrow |-> [a \in {} |-> 0]]

Init ==
    /\ builder = None
    /\ built = None
    /\ svm = InitSvm
    /\ call = None
    /\ sent = <<>>
    /\ ret = None
    /\ observed = None
    /\ hist = NoHist

HasBuilder == builder.kind = "InstructionBuilder"

\* ---- the builder, explored freely up to MaxAccounts accounts ----

\* InstructionBuilder::new
New ==
    /\ builder = None /\ built = None
    /\ \E t \in FreeTargets :
          /\ builder' = InstructionBuilder_new(t[1], t[2])
          /\ hist' = [NoHist EXCEPT !.new = t]
    /\ UNCHANGED <<built, svm, call, sent, ret, observed>>

\* one add call on the builder; the call consumes the builder, so what
\* accounts() or get_account() lent out before it is gone
AddStep(c) ==
    /\ HasBuilder
    /\ builder' = apply_add(builder, c)
    /\ hist' = [hist EXCEPT !.adds = Append(@, c)]
    /\ observed' = None
    /\ UNCHANGED <<built, svm, call, sent, ret>>

FreeAdd(c) == HasBuilder /\ Len(builder.accounts) < MaxAccounts /\ AddStep(c)

Account == \E n \in FreeNames, k \in FreeKeys : FreeAdd(AddCall("account", n, k))

AccountMut == \E n \in FreeNames, k \in FreeKeys : FreeAdd(AddCall("account_mut", n, k))

Signer == \E n \in FreeSignerNames, k \in FreeKeypairs : FreeAdd(AddCall("signer", n, k))

SignerReadonly ==
    \E n \in FreeSignerNames, k \in FreeKeypairs :
        FreeAdd(AddCall("signer_readonly", n, k))

SystemProgram == FreeAdd(AddCall("system_program", "system_program", SystemProgramId))

TokenProgram == FreeAdd(AddCall("token_program", "token_program", TokenProgramId))

AssociatedTokenProgram ==
    FreeAdd(AddCall("associated_token_program", "associated_token_program",
                    AssociatedTokenProgramId))

RentSysvar == FreeAdd(AddCall("rent_sysvar", "rent", RentSysvarId))

\* one args call on the builder; hist counts the args calls up to 2 (2 stands
\* for two or more) and keeps the value of the last one
ArgsStep(v) ==
    /\ HasBuilder
    /\ builder' = args(builder, v)
    /\ hist' = [hist EXCEPT !.args_calls = IF @ = 0 THEN 1 ELSE 2, !.last_args = v]
    /\ observed' = None
    /\ UNCHANGED <<built, svm, call, sent, ret>>

Args == \E v \in FreeArgChoices : ArgsStep(v)

\* build() consumes the builder
Build ==
    /\ HasBuilder
    /\ built' = build(builder)
    /\ builder' = None
    /\ UNCHANGED <<svm, call, sent, ret, observed, hist>>

\* the caller lets go of what build() returned
Drop ==
    /\ built # None
    /\ built' = None
    /\ hist' = NoHist
    /\ UNCHANGED <<builder, svm, call, sent, ret, observed>>

Next ==
    \/ New
    \/ Account
    \/ AccountMut
    \/ Signer
    \/ SignerReadonly
    \/ SystemProgram
    \/ TokenProgram
    \/ AssociatedTokenProgram
    \/ RentSysvar
    \/ Args
    \/ Build
    \/ Drop

Spec == Init /\ [][Next]_vars

\* ---- the escrow flows: the builder fed as the tests feed it, and the submits ----

\* the add calls that continue one of the tests' account lists
NextSteps ==
    {s[Len(hist.adds) + 1] :
        s \in {s \in ScriptsFor(builder.instruction_name) :
                 /\ Len(s) > Len(hist.adds)
                 /\ SubSeq(s, 1, Len(hist.adds)) = hist.adds}}

TestAdd(method) ==
    /\ HasBuilder
    /\ \E c \in NextSteps : c.method = method /\ AddStep(c)

\* ctx.instruction_builder(name)
CtxInstructionBuilder ==
    /\ builder = None /\ built = None /\ call = None
    /\ \E n \in {"make", "take"} :
          /\ builder' = InstructionBuilder_new(EscrowProgramId, n)
          /\ hist' = [NoHist EXCEPT !.new = <<EscrowProgramId, n>>]
    /\ UNCHANGED <<built, svm, call, sent, ret, observed>>

TestSigner == TestAdd("signer")

TestAccountMut == TestAdd("account_mut")

TestAccount == TestAdd("account")

TestAssociatedTokenProgram == TestAdd("associated_token_program")

TestTokenProgram == TestAdd("token_program")

TestSystemProgram == TestAdd("system_program")

TestArgs ==
    /\ HasBuilder
    /\ \E v \in ArgsFor(builder.instruction_name) : ArgsStep(v)

\* a submit call returns: the environment, the result and the record of the call
Returns(entry, signers, instructions, o) ==
    /\ svm' = o.svm
    /\ ret' = o.ret
    /\ sent' = o.sent
    /\ call' = [entry |-> entry, signers |-> signers, instructions |-> instructions,
                before |-> svm, after |-> o.svm]

\* builder.execute(&mut ctx, signers) consumes the builder
BuilderExecute ==
    /\ HasBuilder /\ call = None
    /\ \E signers \in SignerChoices(IF build(builder).kind = "Ok"
                                    THEN <<build(builder).ix>> ELSE <<>>) :
          Returns("InstructionBuilder::execute", signers, <<>>,
                  builder_execute(builder, svm, signers))
    /\ builder' = None
    /\ UNCHANGED <<built, observed, hist>>

\* ctx.send_instruction(instruction, signers) with the instruction build() returned
SendInstruction ==
    /\ built.kind = "Ok" /\ call = None
    /\ \E signers \in SignerChoices(<<built.ix>>) :
          Returns("send_instruction", signers, <<built.ix>>,
                  send_instruction(svm, built.ix, signers))
    /\ built' = None
    /\ UNCHANGED <<builder, observed, hist>>

\* the instruction lists send_instructions is called with
Batches == UNION {[1..k -> InstructionPool] : k \in 0..MaxBatch}

\* ctx.send_instructions(&instructions, signers)
SendInstructions ==
    /\ builder = None /\ built = None /\ call = None
    /\ \E instructions \in Batches : \E signers \in SignerChoices(instructions) :
          Returns("send_instructions", signers, instructions,
                  send_instructions(svm, instructions, signers))
    /\ UNCHANGED <<builder, built, observed, hist>>

\* ctx.execute(name, accounts, args, signers) with a test's account list
CtxExecute ==
    /\ builder = None /\ built = None /\ call = None
    /\ \E n \in {"make", "take"} : \E script \in ScriptsFor(n) : \E v \in ArgsFor(n) :
         LET metas == accounts_of(apply_script(InstructionBuilder_new(EscrowProgramId, n),
                                               script, 1))
             ix == build_instruction(EscrowProgramId, n, metas, v).ix
         IN \E signers \in SignerChoices(<<ix>>) :
               Returns("execute", signers, <<>>,
                       ctx_execute(svm, EscrowProgramId, n, metas, v, signers))
    /\ UNCHANGED <<builder, built, observed, hist>>

\* the caller lets go of what the submit call returned
DropResult ==
    /\ call # None
    /\ call' = None
    /\ sent' = <<>>
    /\ ret' = None
    /\ hist' = NoHist
    /\ UNCHANGED <<builder, built, svm, observed>>

\* ctx.svm.expire_blockhash()
ExpireBlockhash ==
    /\ svm.blockhash < MaxBlockhash
    /\ svm' = expire_blockhash(svm)
    /\ UNCHANGED <<builder, built, call, sent, ret, observed, hist>>

NextSubmit ==
    \/ CtxInstructionBuilder
    \/ TestSigner
    \/ TestAccountMut
    \/ TestAccount
    \/ TestAssociatedTokenProgram
    \/ TestTokenProgram
    \/ TestSystemProgram
    \/ TestArgs
    \/ Build
    \/ Drop
    \/ BuilderExecute
    \/ SendInstruction
    \/ SendInstructions
    \/ CtxExecute
    \/ DropResult
    \/ ExpireBlockhash

SpecSubmit == Init /\ [][NextSubmit]_vars

\* ---- the same calls in the environment funded for several escrows ----

\* the environment of the batch test: the maker and the taker hold enough for
\* every escrow of the batch
InitBatchSvm ==
    [InitSvm EXCEPT
        !.token = (get_associated_token_address(Maker, MintA) :> MakerBatchA)
                  @@ (get_associated_token_address(Taker, MintB) :> TakerBatchB)]

InitBatch ==
    /\ builder = None
    /\ built = None
    /\ svm = InitBatchSvm
    /\ call = None
    /\ sent = <<>>
    /\ ret = None
    /\ observed = None
    /\ hist = NoHist

SpecBatch == InitBatch /\ [][NextSubmit]_vars

\* ---- a builder read through its accessors between the calls that feed it ----

ReadAdd ==
    /\ HasBuilder /\ Len(builder.accounts) < MaxReadAccounts
    /\ \/ Account
       \/ AccountMut
       \/ Signer
       \/ SignerReadonly
       \/ SystemProgram
       \/ TokenProgram
       \/ AssociatedTokenProgram
       \/ RentSysvar

\* builder.get_account(name)
GetAccount ==
    /\ HasBuilder
    /\ \E n \in ReadNames :
          LET r == borrow(builder, get_account(builder, n))
          IN  /\ builder' = r.self
              /\ observed' = [op |-> "get_account", before |-> builder, name |-> n,
                              value |-> r.value]
    /\ UNCHANGED <<built, svm, call, sent, ret, hist>>

\* builder.accounts()
Accounts ==
    /\ HasBuilder
    /\ LET r == borrow(builder, accounts_of(builder))
       IN  /\ builder' = r.self
           /\ observed' = [op |-> "accounts", before |-> builder, value |-> r.value]
    /\ UNCHANGED <<built, svm, call, sent, ret, hist>>

NextRead ==
    \/ New
    \/ ReadAdd
    \/ Args
    \/ GetAccount
    \/ Accounts

SpecRead == Init /\ [][NextRead]_vars

\* ---- raw account bytes read through the two decodes ----

\* no decode was called yet on the bytes
InitDecode ==
    /\ builder = None
    /\ built = None
    /\ svm = InitSvm
    /\ call = None
    /\ sent = <<>>
    /\ ret = None
    /\ observed \in {[op |-> "decode", raw |-> r, checked |-> None, unchecked |-> None] :
                        r \in RawChoices}
    /\ hist = NoHist

\* get_anchor_account on the bytes
GetAnchorAccount ==
    /\ observed.checked = None
    /\ observed' = [observed EXCEPT !.checked = get_anchor_account(observed.raw)]
    /\ UNCHANGED <<builder, built, svm, call, sent, ret, hist>>

\* get_anchor_account_unchecked on the bytes
GetAnchorAccountUnchecked ==
    /\ observed.unchecked = None
    /\ observed' = [observed EXCEPT !.unchecked = get_anchor_account_unchecked(observed.raw)]
    /\ UNCHANGED <<builder, built, svm, call, sent, ret, hist>>

NextDecode ==
    \/ GetAnchorAccount
    \/ GetAnchorAccountUnchecked

SpecDecode == InitDecode /\ [][NextDecode]_vars

\* ---- the ways the tests encode instruction arguments ----

InitEncode ==
    /\ builder = None
    /\ built = None
    /\ svm = InitSvm
    /\ call = None
    /\ sent = <<>>
    /\ ret = None
    /\ observed \in {[op |-> "input", input |-> v] : v \in EncodeInputs}
    /\ hist = NoHist

Encoded(way, bytes) ==
    /\ observed.op = "input"
    /\ observed' = [op |-> way, input |-> observed.input, bytes |-> bytes]
    /\ UNCHANGED <<builder, built, svm, call, sent, ret, hist>>

MakeArgsOf(v) == [seed |-> v[1], receive |-> v[2], amount |-> v[3]]

\* tuple_args(v).serialize(&mut writer)
EncodeTuple == Encoded("tuple_args", TupleArgs_serialize(observed.input))

\* MakeArgs { seed, receive, amount }.serialize(&mut writer)
EncodeStruct ==
    /\ Len(observed.input) = 3
    /\ Encoded("MakeArgs", MakeArgs_serialize(MakeArgsOf(observed.input)))

\* the make data put together by hand
EncodeManual ==
    /\ Len(observed.input) = 3
    /\ Encoded("manual", manual_instruction_data(MakeArgsOf(observed.input)))

\* the make data of InstructionBuilder::new(.., "make").args(tuple_args(v))
EncodeBuilder ==
    /\ Len(observed.input) = 3
    /\ Encoded("builder",
               args(InstructionBuilder_new(EscrowProgramId, "make"), observed.input).data)

NextEncode ==
    \/ EncodeTuple
    \/ EncodeStruct
    \/ EncodeManual
    \/ EncodeBuilder

SpecEncode == InitEncode /\ [][NextEncode]_vars

\* ---- a TransactionResult read through its accessors ----
InitResult ==
    /\ builder = None
    /\ built = None
    /\ svm = InitSvm
    /\ call = None
    /\ sent = <<>>
    /\ ret \in {TransactionResult_new([logs |-> l], n) :
                  l \in LogChoices, n \in {None, Some("make")}}
    /\ observed = None
    /\ hist = NoHist

\* result.compute_units()
ComputeUnits ==
    /\ ret.kind = "TransactionResult" /\ observed = None
    /\ observed' = [op |-> "compute_units", value |-> compute_units(ret)]
    /\ UNCHANGED <<builder, built, svm, call, sent, ret, hist>>

\* result.logs()
Logs ==
    /\ ret.kind = "TransactionResult" /\ observed = None
    /\ LET r == borrow(ret, logs(ret))
       IN  /\ ret' = r.self
           /\ observed' = [op |-> "logs", before |-> ret, value |-> r.value]
    /\ UNCHANGED <<builder, built, svm, call, sent, hist>>

\* result.find_logs(pattern)
FindLogs ==
    /\ ret.kind = "TransactionResult" /\ observed = None
    /\ \E p \in PatternChoices :
          LET r == borrow(ret, find_logs(ret, p))
          IN  /\ ret' = r.self
              /\ observed' = [op |-> "find_logs", before |-> ret, pattern |-> p,
                              value |-> r.value]
    /\ UNCHANGED <<builder, built, svm, call, sent, hist>>

\* result.has_log(pattern)
HasLog ==
    /\ ret.kind = "TransactionResult" /\ observed = None
    /\ \E p \in PatternChoices :
          LET r == borrow(ret, has_log(ret, p))
          IN  /\ ret' = r.self
              /\ observed' = [op |-> "has_log", before |-> ret, pattern |-> p,
                              value |-> r.value]
    /\ UNCHANGED <<builder, built, svm, call, sent, hist>>

\* the caller lets go of what the accessor returned
Forget ==
    /\ ret.kind = "TransactionResult" /\ observed # None
    /\ observed' = None
    /\ UNCHANGED <<builder, built, svm, call, sent, ret, hist>>

NextResult ==
    \/ ComputeUnits
    \/ Logs
    \/ FindLogs
    \/ HasLog
    \/ Forget

SpecResult == InitResult /\ [][NextResult]_vars


(***************************************************************************)
(* The claims.                                                             *)
(***************************************************************************)
\* the AccountMeta an add call stands for: the key it names, writable for
\* account_mut and signer, a signer for signer and signer_readonly
ExpectedMeta(c) ==
    [pubkey |-> c.key,
     is_signer |-> c.method \in {"signer", "signer_readonly"},
     is_writable |-> c.method \in {"account_mut", "signer"}]

ExpectedMetas == [i \in 1..Len(hist.adds) |-> ExpectedMeta(hist.adds[i])]

\* C1: after any sequence of add calls, accounts() holds one entry per call in
\* call order, and the instruction build() returns has that same account
\* list: same addresses, same flags, same order, same length.
C1_AccountsInCallOrder ==
    /\ HasBuilder => accounts_of(builder) = ExpectedMetas
    /\ built.kind = "Ok" => built.ix.accounts = ExpectedMetas

C1_Witness ==
    /\ built.kind = "Ok"
    /\ Len(built.ix.accounts) = 3
    /\ hist.adds[1].method = "signer"
    /\ hist.adds[2].method = "account_mut"
    /\ hist.adds[3].method = "system_program"

\* C2: build() on a builder that never received args returns the missing-data
\* error and no instruction, whatever accounts it holds, and execute returns
\* that failure as BuildError.
C2_BuildWithoutArgsFails ==
    /\ (built # None /\ hist.args_calls = 0)
          => built = [kind |-> "Err", err |-> NoDataMessage]
    /\ (call # None /\ call.entry = "InstructionBuilder::execute" /\ hist.args_calls = 0)
          => ret = BuildError(to_string(NoDataMessage))

C2_Witness ==
    /\ call # None
    /\ call.entry = "InstructionBuilder::execute"
    /\ hist.args_calls = 0
    /\ Len(hist.adds) = 9
    /\ call.signers # <<>>
    /\ ret.kind = "BuildError"

\* C3: a submit call with an empty signer list returns BuildError, hands no
\* transaction to the environment and leaves the environment as it was.
C3_NoSignersNoSubmit ==
    (call # None /\ call.signers = <<>>)
        => /\ ret.kind = "BuildError"
           /\ sent = <<>>
           /\ call.after = call.before

C3_Witness ==
    /\ call # None
    /\ call.entry = "send_instructions"
    /\ call.signers = <<>>
    /\ Len(call.instructions) = 2
    /\ ret = BuildError(to_string(NoSignersMessage))

\* the little-endian value of bytes from the i-th on, -1 when it is 2^31 or
\* more (no argument of the model is that large)
RECURSIVE le_value(_, _)
le_value(bytes, i) ==
    IF i > Len(bytes) THEN 0
    ELSE LET rest == le_value(bytes, i + 1)
         IN IF rest < 0 \/ rest >= 8388608 THEN -1 ELSE bytes[i] + 256 * rest

\* the arguments decoded back from data: field i is the little-endian value
\* of the 8 bytes at offset 8 + 8 * (i - 1)
DecodedField(data, i) == le_value(SubSeq(data, 8 * i + 1, 8 * i + 8), 1)

DataEncodes(data, name, v) ==
    /\ Len(data) = 8 + 8 * Len(v)
    /\ SubSeq(data, 1, 8) = calculate_anchor_discriminator(name)
    /\ \A i \in 1..Len(v) : DecodedField(data, i) = v[i]
    /\ \A i \in 1..Len(data) : data[i] \in Byte

\* C4: after args(v) the data is the 8-byte selector of the builder's
\* instruction name followed by the encoding of v and nothing else (32 bytes
\* for three u64 values), and the built instruction carries that data and the
\* program id the builder was constructed with.
C4_DataIsSelectorThenArgs ==
    /\ (HasBuilder /\ hist.args_calls > 0)
          => /\ DataEncodes(builder.data, hist.new[2], hist.last_args)
             /\ Len(hist.last_args) = 3 => Len(builder.data) = 32
    /\ built.kind = "Ok"
          => /\ DataEncodes(built.ix.data, hist.new[2], hist.last_args)
             /\ Len(hist.last_args) = 3 => Len(built.ix.data) = 32
             /\ built.ix.program_id = hist.new[1]

C4_Witness ==
    /\ built.kind = "Ok"
    /\ hist.new = <<OtherProgramId, "make">>
    /\ hist.last_args = <<42, 500000000, 1000000000>>
    /\ Len(hist.adds) = 3
    /\ Len(built.ix.data) = 32

\* C5: the fee payer of every transaction a submit call assembles is the first
\* element of the signer list the call was given.
C5_PayerIsFirstSigner ==
    call # None
        => \A i \in DOMAIN sent : sent[i].payer = pubkey(call.signers[1])

C5_Witness ==
    /\ call # None
    /\ call.entry = "send_instructions"
    /\ Len(sent) = 1
    /\ call.signers = <<Taker, Maker>>
    /\ sent[1].payer = Taker
    /\ required_signers(sent[1].instructions) = {Maker}
    /\ ret.kind = "TransactionResult"

\* what the environment answers to the transaction the call handed to it
Verdict == send_transaction(call.before, sent[1])

C7_OneAtomicTransaction ==
    (call # None /\ call.entry = "send_instructions" /\ call.signers # <<>>)
        => /\ Len(sent) = 1
           /\ sent[1].instructions = call.instructions
           /\ ret.kind = "ExecutionFailed" => call.after = call.before

\* a rejected two-instruction transaction whose first instruction succeeds
C7_Witness ==
    /\ call # None
    /\ call.entry = "send_instructions"
    /\ Len(call.instructions) = 2
    /\ ret.kind = "ExecutionFailed"
    /\ ret.msg[2] = "InsufficientFunds"
    /\ process_instruction(call.before, sent[1], call.instructions[1]).kind = "Ok"
    /\ call.after = call.before

\* C8: a submit call hands the environment at most one transaction, so the
\* environment after the call is the one before it with that transaction
\* applied once, or untouched when the transaction was rejected.
C8_SingleAttempt ==
    call # None
        => /\ Len(sent) <= 1
           /\ call.after = IF sent = <<>> THEN call.before ELSE Verdict.svm

C8_Witness ==
    /\ call # None
    /\ Len(sent) = 1
    /\ ret.kind = "ExecutionFailed"
    /\ call.entry = "send_instruction"

\* C9: every transaction a submit call assembles carries the block reference
\* that is the environment's latest at the time of that call.
C9_FreshBlockhash ==
    call # None
        => \A i \in DOMAIN sent :
              sent[i].recent_blockhash = latest_blockhash(call.before)

\* a submit accepted after the environment moved on to a new block reference
C9_Witness ==
    /\ call # None
    /\ Len(sent) = 1
    /\ call.before.blockhash > 0
    /\ sent[1].recent_blockhash = call.before.blockhash
    /\ ret.kind = "TransactionResult"
    /\ call.after # call.before

\* whether pat lies in line at position i
OccursAt(line, i, pat) ==
    /\ i >= 1
    /\ i + Len(pat) - 1 <= Len(line)
    /\ \A k \in 1..Len(pat) : line[i + k - 1] = pat[k]

\* the characters of line from position a to position b
Between(line, a, b) ==
    IF a >= 1 /\ a <= b /\ b <= Len(line) THEN SubSeq(line, a, b) ELSE <<>>

Occurs(line, pat) == \E i \in 1..(Len(line) + 1) : OccursAt(line, i, pat)

\* the readings of a line as "... consumed N of M compute units": the text
\* before "consumed" and the digits of N, for every way the line has that shape
ShapeReadings(line) ==
    LET all_digits(d) == d # <<>> /\ \A k \in DOMAIN d : d[k] \in Digits
        head == MarkerConsumed \o <<" ">>
        mid == <<" ">> \o SeparatorOf \o <<" ">>
        tail == <<" ">> \o MarkerComputeUnits
        m_end == Len(line) - Len(tail)
    IN  {[prefix |-> Between(line, 1, ij[1] - 1),
          n |-> Between(line, ij[1] + Len(head), ij[2] - 1)] :
            ij \in {x \in {i \in 1..Len(line) : OccursAt(line, i, head)}
                            \X {j \in 1..Len(line) : OccursAt(line, j, mid)} :
                      /\ all_digits(Between(line, x[1] + Len(head), x[2] - 1))
                      /\ all_digits(Between(line, x[2] + Len(mid), m_end))
                      /\ OccursAt(line, m_end + 1, tail)}}

HasBothMarkers(line) ==
    Occurs(line, MarkerConsumed) /\ Occurs(line, MarkerComputeUnits)

ReadLogs == ret.inner.logs

ComputeUnitsRead == observed # None /\ observed.op = "compute_units"

\* C10 as stated: compute_units() returns 0 when no log line contains both
\* "consumed" and "compute units", and returns N whenever the logs contain a
\* line of the shape "... consumed N of M compute units" with N an unsigned
\* integer (one that fits 64 bits); it always returns a number.
C10_AnyShapedLine ==
    ComputeUnitsRead
        => /\ observed.value \in Nat
           /\ (\A i \in DOMAIN ReadLogs : ~HasBothMarkers(ReadLogs[i]))
                 => observed.value = 0
           /\ \A i \in DOMAIN ReadLogs :
                 \A r \in ShapeReadings(ReadLogs[i]) :
                    fits_u64(r.n) => observed.value = digits_number(r.n, 0)

\* C10, amended: compute_units() returns 0 when no log line contains both
\* "consumed" and "compute units", and returns N when the first log line that
\* contains both has the shape "... consumed N of M compute units" with N an
\* unsigned integer that fits 64 bits and no "consumed" in the text before
\* it; it always returns a number.
C10_FirstMarkedLine ==
    ComputeUnitsRead
        => /\ observed.value \in Nat
           /\ (\A i \in DOMAIN ReadLogs : ~HasBothMarkers(ReadLogs[i]))
                 => observed.value = 0
           /\ \A i \in DOMAIN ReadLogs :
                 (/\ HasBothMarkers(ReadLogs[i])
                  /\ \A h \in 1..(i - 1) : ~HasBothMarkers(ReadLogs[h]))
                    => \A r \in ShapeReadings(ReadLogs[i]) :
                          (/\ fits_u64(r.n)
                           /\ ~Occurs(r.prefix, MarkerConsumed))
                             => observed.value = digits_number(r.n, 0)

\* a line without the markers, then two shaped lines with different numbers:
\* the first shaped line's number is what was returned
C10_Witness ==
    /\ ComputeUnitsRead
    /\ ReadLogs = <<LogMake, LineConsumed12345, LineConsumed7>>
    /\ observed.value = 12345

\* the lines of ReadLogs in which p occurs, in log order
LinesWith(p) == SelectSeq(observed.before.inner.logs, LAMBDA line : Occurs(line, p))

\* C11: find_logs(p) returns exactly the log lines that contain p as a plain
\* substring, in log order; has_log(p) is true exactly when find_logs(p) is
\* non-empty; logs() returns all the lines; none of the three changes the
\* result.
C11_PlainSubstringSearch ==
    (observed # None /\ observed.op \in {"logs", "find_logs", "has_log"})
        => /\ ret = observed.before
           /\ observed.op = "logs" => observed.value = observed.before.inner.logs
           /\ observed.op = "find_logs" => observed.value = LinesWith(observed.pattern)
           /\ observed.op = "has_log"
                => /\ observed.value \in BOOLEAN
                   /\ observed.value <=> find_logs(ret, observed.pattern) # <<>>
                   /\ observed.value <=> LinesWith(observed.pattern) # <<>>

\* two of three lines hold the pattern, not at their start
C11_Witness ==
    /\ observed # None
    /\ observed.op = "find_logs"
    /\ observed.pattern = MarkerConsumed
    /\ ReadLogs = <<LineConsumed7, LogMake, LineConsumed12345>>
    /\ observed.value = <<LineConsumed7, LineConsumed12345>>

\* the positions of the add calls made under name
AddsUnder(name) == {i \in DOMAIN hist.adds : hist.adds[i].name = name}

Latest(S) == CHOOSE i \in S : \A j \in S : j <= i

\* C12: get_account(name) returns the entry added by the most recent add call
\* made under that name, and nothing for a name no add call used.
C12_GetAccountLatest ==
    (observed # None /\ observed.op = "get_account")
        => IF AddsUnder(observed.name) = {}
           THEN observed.value = None
           ELSE observed.value
                   = Some(ExpectedMeta(hist.adds[Latest(AddsUnder(observed.name))]))

\* a name used twice with different keys and flags: the second entry is returned
C12_Witness ==
    /\ observed # None
    /\ observed.op = "get_account"
    /\ observed.name = "user"
    /\ Len(hist.adds) = 2
    /\ hist.adds[1] = AddCall("signer", "user", Maker)
    /\ hist.adds[2] = AddCall("account", "user", Taker)
    /\ observed.value = Some(AccountMeta_new_readonly(Taker, FALSE))

\* C19: accounts() and get_account(name) are read-only: after any number of
\* calls, with any name, the builder (account list, name map, data) is the
\* one before the call, and a repeated call gives the answer already given.
C19_ReadersLeaveBuilder ==
    (observed # None /\ observed.op \in {"get_account", "accounts"})
        => /\ builder = observed.before
           /\ builder.accounts = observed.before.accounts
           /\ builder.account_indices = observed.before.account_indices
           /\ builder.data = observed.before.data
           /\ observed.op = "get_account"
                => observed.value = get_account(builder, observed.name)
           /\ observed.op = "accounts" => observed.value = accounts_of(builder)

\* a name no add call used is asked for on a builder that holds accounts and data
C19_Witness ==
    /\ observed # None
    /\ observed.op = "get_account"
    /\ observed.name = "missing"
    /\ observed.value = None
    /\ Len(builder.accounts) = 2
    /\ hist.args_calls > 0
    /\ Len(builder.data) = 32

\* C13: account names are unique in a builder: no two entries of the account
\* list carry the same name.
C13_NamesUnique ==
    HasBuilder
        => \A i, j \in DOMAIN builder.accounts :
              i # j => builder.accounts[i].name # builder.accounts[j].name

\* the names the account list uses
NamesUsed == {builder.accounts[i].name : i \in DOMAIN builder.accounts}

\* C14: the name-to-position map and the account list agree: every name of
\* the map points inside the list at an entry of that name, every name of the
\* list is in the map, the list is as long as the number of add calls and the
\* map as large as the number of distinct names used.
C14_MapAndListAgree ==
    HasBuilder
        => /\ \A n \in DOMAIN builder.account_indices :
                 /\ builder.account_indices[n] \in 0..(Len(builder.accounts) - 1)
                 /\ builder.accounts[builder.account_indices[n] + 1].name = n
           /\ NamesUsed = DOMAIN builder.account_indices
           /\ Len(builder.accounts) = Len(hist.adds)
           /\ Cardinality(DOMAIN builder.account_indices)
                 = Cardinality({hist.adds[i].name : i \in DOMAIN hist.adds})

\* three add calls under two names
C14_Witness ==
    /\ HasBuilder
    /\ Len(builder.accounts) = 3
    /\ Cardinality(DOMAIN builder.account_indices) = 2
    /\ builder.accounts[1].name = "system_program"
    /\ builder.accounts[3].name = "system_program"
    /\ builder.account_indices["system_program"] = 2

\* C15: a second args call replaces the data: after args(a) and then args(b),
\* whatever add calls lie between, the data is the selector followed by the
\* encoding of b, which is the data of a builder that only received args(b).
C15_ArgsLastWriteWins ==
    (HasBuilder /\ hist.args_calls = 2)
        => /\ builder.data
                 = calculate_anchor_discriminator(hist.new[2])
                   \o TupleArgs_serialize(hist.last_args)
           /\ builder.data
                 = args(InstructionBuilder_new(hist.new[1], hist.new[2]),
                        hist.last_args).data
           /\ Len(builder.data) = 8 + 8 * Len(hist.last_args)

\* args called at least twice, the last time without arguments
C15_Witness ==
    /\ HasBuilder
    /\ hist.args_calls = 2
    /\ hist.last_args = <<>>
    /\ Len(hist.adds) = 2
    /\ Len(builder.data) = 8

\* the entry an add call has to append: name, address and the flags of its method
FixedEntry(c) ==
    LET plain(w, sg) == [name |-> c.name,
                         meta |-> [pubkey |-> c.key, is_signer |-> sg, is_writable |-> w]]
        helper(n, k) == [name |-> n,
                         meta |-> [pubkey |-> k, is_signer |-> FALSE,
                                   is_writable |-> FALSE]]
    IN  CASE c.method = "account" -> plain(FALSE, FALSE)
          [] c.method = "account_mut" -> plain(TRUE, FALSE)
          [] c.method = "signer" -> plain(TRUE, TRUE)
          [] c.method = "signer_readonly" -> plain(FALSE, TRUE)
          [] c.method = "system_program" -> helper("system_program", SystemProgramId)
          [] c.method = "token_program" -> helper("token_program", TokenProgramId)
          [] c.method = "associated_token_program"
                -> helper("associated_token_program", AssociatedTokenProgramId)
          [] c.method = "rent_sysvar" -> helper("rent", RentSysvarId)

\* C16: every add call appends one entry with the flags of its method (account:
\* read-only non-signer, account_mut: writable non-signer, signer: writable
\* signer, signer_readonly: read-only signer, the helpers: their fixed
\* address, read-only non-signer, under their fixed name) and leaves the
\* entries added before as they were.
C16_AddAppendsFixedFlags ==
    [][(HasBuilder /\ HasBuilder' /\ Len(hist'.adds) = Len(hist.adds) + 1)
          => builder'.accounts
                = Append(builder.accounts, FixedEntry(hist'.adds[Len(hist'.adds)]))]_vars

\* a read-only signer, then the rent helper, then a writable account
C16_Witness ==
    /\ HasBuilder
    /\ Len(hist.adds) = 3
    /\ hist.adds[1].method = "signer_readonly"
    /\ hist.adds[2].method = "rent_sysvar"
    /\ hist.adds[3].method = "account_mut"
    /\ builder.accounts[1].meta = [pubkey |-> Maker, is_signer |-> TRUE,
                                   is_writable |-> FALSE]

\* C17: after args of the empty tuple the data is exactly the 8-byte selector
\* and build() succeeds with that data; build() on a builder that never
\* received args does not succeed.
C17_EmptyArgsBuildable ==
    /\ (HasBuilder /\ hist.args_calls > 0 /\ hist.last_args = <<>>)
          => /\ builder.data = calculate_anchor_discriminator(hist.new[2])
             /\ Len(builder.data) = 8
             /\ build(builder).kind = "Ok"
    /\ (built # None /\ hist.args_calls > 0 /\ hist.last_args = <<>>)
          => /\ built.kind = "Ok"
             /\ built.ix.data = calculate_anchor_discriminator(hist.new[2])
    /\ (built # None /\ hist.args_calls = 0) => built.kind = "Err"

\* an instruction built from the empty tuple, with accounts
C17_Witness ==
    /\ built.kind = "Ok"
    /\ hist.args_calls = 1
    /\ hist.last_args = <<>>
    /\ Len(built.ix.accounts) = 2
    /\ built.ix.data = <<138, 227, 232, 77, 223, 166, 96, 197>>

\* the encodings of the elements of v from the i-th on, one after the other
RECURSIVE ElementsFrom(_, _)
ElementsFrom(v, i) ==
    IF i > Len(v) THEN <<>> ELSE serialize_u64(v[i]) \o ElementsFrom(v, i + 1)

\* C18: the encoding of a tuple of 1 to 4 elements is the encodings of its
\* elements one after the other in position order; for three u64 it is the
\* encoding of the struct with those fields and the little-endian bytes put
\* together by hand, so the three ways of building the make data give the
\* same bytes.
C18_TupleIsConcatenation ==
    (observed # None /\ observed.op \in {"tuple_args", "MakeArgs", "manual", "builder"})
        => LET v == observed.input
           IN  /\ observed.op \in {"tuple_args", "MakeArgs"}
                    => /\ observed.bytes = ElementsFrom(v, 1)
                       /\ observed.bytes = TupleArgs_serialize(v)
                       /\ Len(observed.bytes) = 8 * Len(v)
                       /\ \A i \in 1..Len(v) :
                             le_value(SubSeq(observed.bytes, 8 * i - 7, 8 * i), 1) = v[i]
               /\ observed.op \in {"manual", "builder"}
                    => /\ observed.bytes
                             = manual_instruction_data(MakeArgsOf(v))
                       /\ observed.bytes
                             = args(InstructionBuilder_new(EscrowProgramId, "make"), v).data
                       /\ SubSeq(observed.bytes, 9, 32)
                             = MakeArgs_serialize(MakeArgsOf(v))
                       /\ DataEncodes(observed.bytes, "make", v)

\* the make arguments of the tests, through the struct
C18_Witness ==
    /\ observed # None
    /\ observed.op = "MakeArgs"
    /\ observed.input = <<42, 500000000, 1000000000>>
    /\ observed.bytes = <<42, 0, 0, 0, 0, 0, 0, 0, 0, 101, 205, 29, 0, 0, 0, 0,
                          0, 202, 154, 59, 0, 0, 0, 0>>

\* C20: build_instruction(name, accounts, args) gives the instruction that a
\* builder made for the same program and name gives when it is fed the same
\* accounts in the same order with the same flags, then args, then build:
\* same program id, same account list, same data bytes.
C20_OneShotEqualsBuilder ==
    (built.kind = "Ok" /\ hist.args_calls = 1)
        => LET one_shot == build_instruction(hist.new[1], hist.new[2],
                                             ExpectedMetas, hist.last_args)
           IN  /\ one_shot.kind = "Ok"
               /\ built.ix.program_id = one_shot.ix.program_id
               /\ built.ix.accounts = one_shot.ix.accounts
               /\ built.ix.data = one_shot.ix.data
               /\ built.ix = one_shot.ix

\* the make instruction built from a signer, a writable and a read-only
\* account and the three make arguments
C20_Witness ==
    /\ built.kind = "Ok"
    /\ hist.args_calls = 1
    /\ hist.new = <<EscrowProgramId, "make">>
    /\ Len(hist.last_args) = 3
    /\ Len(hist.adds) = 3
    /\ hist.adds[1].method = "signer"
    /\ hist.adds[2].method = "account_mut"
    /\ hist.adds[3].method = "account"
    /\ built.ix = build_instruction(EscrowProgramId, "make",
                                    built.ix.accounts, hist.last_args).ix

\* the instruction names the selectors are compared over
SelectorNames == {"make", "take", "test", "refund", "initialize"}

\* the 8 bytes at the head of a builder's data
SelectorIn(b) == [i \in 1..8 |-> b.data[i]]

\* C21: the selector is a function of the instruction name alone: the same
\* name gives the same 8 bytes each time, a builder's data starts with the
\* selector of its name whatever its program id, accounts and arguments (so
\* it starts as the data of any other builder of that name does), and
\* distinct names of the set give distinct selectors.
C21_SelectorOfNameAlone ==
    /\ \A n \in SelectorNames :
          /\ Len(calculate_anchor_discriminator(n)) = 8
          /\ \A i \in 1..8 : calculate_anchor_discriminator(n)[i] \in Byte
    /\ \A n1, n2 \in SelectorNames :
          n1 # n2 => calculate_anchor_discriminator(n1) # calculate_anchor_discriminator(n2)
    /\ (HasBuilder /\ hist.args_calls > 0)
          => /\ Len(builder.data) >= 8
             /\ SelectorIn(builder) = calculate_anchor_discriminator(hist.new[2])
             /\ \A t \in FreeTargets : \A v \in FreeArgChoices :
                   LET other == args(InstructionBuilder_new(t[1], t[2]), v)
                   IN  (t[2] = hist.new[2]) <=> (SelectorIn(other) = SelectorIn(builder))

\* a builder for another program than the escrow program, named "make", holding
\* accounts and arguments: its data starts as the hand-computed make selector
C21_Witness ==
    /\ HasBuilder
    /\ hist.new = <<OtherProgramId, "make">>
    /\ hist.args_calls > 0
    /\ Len(builder.accounts) = 2
    /\ Len(hist.last_args) = 1
    /\ SelectorIn(builder) = sha256_global_make

\* whether an instruction calls the escrow program's instruction of that name
Calls(ix, name) ==
    /\ ix.program_id = EscrowProgramId
    /\ Len(ix.data) >= 8
    /\ \A i \in 1..8 : ix.data[i] = calculate_anchor_discriminator(name)[i]

\* the call handed the environment one transaction of one instruction, the
\* escrow instruction of that name, and the environment accepted or rejected it
Submitted(name, kind) ==
    /\ call # None
    /\ ret.kind = kind
    /\ Len(sent) = 1
    /\ Len(sent[1].instructions) = 1
    /\ Calls(sent[1].instructions[1], name)

\* C22: after a successful make with arguments (seed, receive, amount) the
\* maker held at least amount of mint A before it, the escrow account exists
\* at the address derived from ("escrow", maker, seed), the vault holds
\* exactly amount of mint A, and the maker's mint-A token account holds
\* amount less than before.
C22_MakeDeposits ==
    Submitted("make", "TransactionResult")
        => LET ix == sent[1].instructions[1]
               maker == ix.accounts[1].pubkey
               seed == DecodedField(ix.data, 1)
               amount == DecodedField(ix.data, 3)
               escrow == find_pda(maker, seed)
               vault == get_associated_token_address(escrow, MintA)
               maker_ata_a == get_associated_token_address(maker, MintA)
           IN  /\ call.before.token[maker_ata_a] >= amount
               /\ escrow \notin DOMAIN call.before.escrow
               /\ escrow \in DOMAIN call.after.escrow
               /\ vault \in DOMAIN call.after.token
               /\ call.after.token[vault] = amount
               /\ call.after.token[maker_ata_a] = call.before.token[maker_ata_a] - amount

\* the make of the tests: the maker's whole holding of mint A goes into the vault
C22_Witness ==
    /\ Submitted("make", "TransactionResult")
    /\ call.entry = "InstructionBuilder::execute"
    /\ hist.last_args = <<2, 1, 2>>
    /\ call.before.token[get_associated_token_address(Maker, MintA)] = MakerInitA
    /\ call.after.token[get_associated_token_address(Maker, MintA)] = 0
    /\ call.after.token[get_associated_token_address(find_pda(Maker, 2), MintA)] = 2

\* what a token account holds in an environment, 0 when it does not exist
Holding(env, a) == IF a \in DOMAIN env.token THEN env.token[a] ELSE 0

\* C23: after a successful take of an escrow made with (seed, receive,
\* amount) the escrow account and the vault are closed, the taker's mint-A
\* account has gained exactly amount, the maker's mint-B account has gained
\* exactly receive and the taker's mint-B account has lost exactly receive;
\* so it is for every take of a run of escrows made and taken one after
\* another by the same maker and taker with distinct seeds.
C23_TakeSettles ==
    Submitted("take", "TransactionResult")
        => LET ix == sent[1].instructions[1]
               taker == ix.accounts[1].pubkey
               maker == ix.accounts[2].pubkey
               escrow == ix.accounts[3].pubkey
               vault == get_associated_token_address(escrow, MintA)
               taker_ata_a == get_associated_token_address(taker, MintA)
               taker_ata_b == get_associated_token_address(taker, MintB)
               maker_ata_b == get_associated_token_address(maker, MintB)
           IN  /\ escrow \in DOMAIN call.before.escrow
               /\ vault \in DOMAIN call.before.token
               /\ escrow = find_pda(maker, call.before.escrow[escrow].seed)
               /\ escrow \notin DOMAIN call.after.escrow
               /\ vault \notin DOMAIN call.after.token
               /\ Holding(call.after, taker_ata_a)
                     = Holding(call.before, taker_ata_a) + call.before.token[vault]
               /\ Holding(call.after, maker_ata_b)
                     = Holding(call.before, maker_ata_b) + call.before.escrow[escrow].receive
               /\ Holding(call.after, taker_ata_b)
                     = Holding(call.before, taker_ata_b) - call.before.escrow[escrow].receive

\* the take of the second escrow of a batch: the escrow of seed 1 was made
\* and taken before, so the taker already holds mint A and the maker mint B
C23_Witness ==
    /\ Submitted("take", "TransactionResult")
    /\ call.entry = "InstructionBuilder::execute"
    /\ sent[1].instructions[1].accounts[3].pubkey = find_pda(Maker, 2)
    /\ call.before.escrow[find_pda(Maker, 2)].receive = 1
    /\ call.before.token[get_associated_token_address(find_pda(Maker, 2), MintA)] = 2
    /\ Holding(call.before, get_associated_token_address(Taker, MintA)) = 1
    /\ Holding(call.before, get_associated_token_address(Maker, MintB)) = 1
    /\ Holding(call.after, get_associated_token_address(Taker, MintA)) = 3
    /\ Holding(call.after, get_associated_token_address(Maker, MintB)) = 2
    /\ Holding(call.after, get_associated_token_address(Taker, MintB)) = 0
    /\ DOMAIN call.after.escrow = {}

\* C24: a take submitted while the taker holds less mint B than the escrow's
\* receive amount fails, and after the failure the escrow account still
\* exists and the vault still holds the full deposited amount.
C24_UnderfundedTakeFails ==
    (/\ call # None
     /\ Len(sent) = 1
     /\ Len(sent[1].instructions) = 1
     /\ Calls(sent[1].instructions[1], "take")
     /\ Len(sent[1].instructions[1].accounts) >= 3
     /\ sent[1].instructions[1].accounts[3].pubkey \in DOMAIN call.before.escrow
     /\ Holding(call.before,
                get_associated_token_address(sent[1].instructions[1].accounts[1].pubkey,
                                             MintB))
           < call.before.escrow[sent[1].instructions[1].accounts[3].pubkey].receive)
        => LET escrow == sent[1].instructions[1].accounts[3].pubkey
               vault == get_associated_token_address(escrow, MintA)
           IN  /\ ret.kind = "ExecutionFailed"
               /\ escrow \in DOMAIN call.after.escrow
               /\ call.after.escrow[escrow] = call.before.escrow[escrow]
               /\ vault \in DOMAIN call.after.token
               /\ call.after.token[vault] = call.before.token[vault]
               /\ call.after.token = call.before.token

\* the take of the tests: the escrow asks for 2 of mint B, the taker holds 1,
\* and the vault keeps the deposit
C24_Witness ==
    /\ call # None
    /\ call.entry = "InstructionBuilder::execute"
    /\ Len(sent) = 1
    /\ Calls(sent[1].instructions[1], "take")
    /\ call.signers = <<Taker>>
    /\ find_pda(Maker, 1) \in DOMAIN call.before.escrow
    /\ call.before.escrow[find_pda(Maker, 1)].receive = 2
    /\ Holding(call.before, get_associated_token_address(Taker, MintB)) = 1
    /\ ret.kind = "ExecutionFailed"
    /\ Holding(call.after, get_associated_token_address(find_pda(Maker, 1), MintA)) = 1

\* whether the bytes start with the tag of the decoded type
StartsWithTag(raw) ==
    /\ Len(raw) >= 8
    /\ \A i \in 1..8 : raw[i] = EscrowTag[i]

\* C25: the validating decode succeeds only on bytes that start with the
\* expected tag and fails with the discriminator-mismatch error, returning no
\* value, on all others; the unchecked decode does not compare the leading
\* bytes (it decodes bytes with another tag as it decodes them with the right
\* one); where the validating decode succeeds both give the same value.
C25_ValidatingDecode ==
    (observed # None /\ observed.op = "decode")
        => /\ observed.checked # None
                => /\ observed.checked.kind = "Ok" => StartsWithTag(observed.raw)
                   /\ ~StartsWithTag(observed.raw)
                        => observed.checked = [kind |-> "Err", err |-> "DiscriminatorMismatch"]
           /\ (observed.unchecked # None /\ Len(observed.raw) >= 8)
                => observed.unchecked
                      = get_anchor_account_unchecked(
                            EscrowTag \o SubSeq(observed.raw, 9, Len(observed.raw)))
           /\ (observed.checked # None /\ observed.unchecked # None
                 /\ observed.checked.kind = "Ok")
                => observed.unchecked = observed.checked

\* bytes with the tag of another type and two well-formed fields: the
\* validating decode refuses them, the unchecked decode reads the fields
C25_Witness ==
    /\ observed # None
    /\ observed.op = "decode"
    /\ observed.raw = calculate_anchor_discriminator("make")
                         \o serialize_u64(258) \o serialize_u64(1)
    /\ observed.checked = [kind |-> "Err", err |-> "DiscriminatorMismatch"]
    /\ observed.unchecked = [kind |-> "Ok", value |-> [seed |-> 258, receive |-> 1]]

BuilderOfHist ==
    LET fed == apply_script(InstructionBuilder_new(hist.new[1], hist.new[2]), hist.adds, 1)
    IN IF hist.args_calls = 0 THEN fed ELSE args(fed, hist.last_args)

\* C27: the builder's execute checks the data before the signers.  On a
\* builder that never received args it returns the missing-data BuildError
\* for every signer list, empty or not, submits nothing, leaves the
\* environment as it was and returns the same whatever the environment's
\* block reference is; the no-signers BuildError is returned only when the
\* build succeeded.
C27_DataCheckedBeforeSigners ==
    (call # None /\ call.entry = "InstructionBuilder::execute")
        => /\ hist.args_calls = 0
                => /\ ret = BuildError(to_string(NoDataMessage))
                   /\ sent = <<>>
                   /\ call.after = call.before
                   /\ \A h \in 0..(MaxBlockhash + 1) :
                         builder_execute(BuilderOfHist,
                                         [call.before EXCEPT !.blockhash = h],
                                         call.signers).ret = ret
           /\ ret = BuildError(to_string(NoSignersMessage))
                => /\ hist.args_calls > 0
                   /\ build(BuilderOfHist).kind = "Ok"
                   /\ call.signers = <<>>

\* a take builder holding its signer and no args, executed with no signers:
\* the error is the missing data, not the missing signers
C27_Witness ==
    /\ call # None
    /\ call.entry = "InstructionBuilder::execute"
    /\ hist.new[2] = "take"
    /\ hist.args_calls = 0
    /\ Len(hist.adds) >= 1
    /\ call.signers = <<>>
    /\ ret = BuildError(to_string(NoDataMessage))
    /\ ret # BuildError(to_string(NoSignersMessage))
    /\ sent = <<>>

\* the first position at or after from where pat lies in line, 0 when none
FirstAt(line, pat, from) ==
    LET at == {i \in from..Len(line) : OccursAt(line, i, pat)}
    IN  IF at = {} THEN 0 ELSE CHOOSE i \in at : \A j \in at : i <= j

\* the text of a line between its first "consumed" and the "of" that
\* follows, None when the line has no such text
TextToOf(line) ==
    LET c == FirstAt(line, MarkerConsumed, 1)
        o == IF c = 0 THEN 0 ELSE FirstAt(line, SeparatorOf, c + Len(MarkerConsumed))
    IN  IF c = 0 \/ o = 0 THEN None
        ELSE Some(Between(line, c + Len(MarkerConsumed), o - 1))

\* the text of a line after its first "consumed", up to the next "of" or
\* "consumed" or to the end of the line when neither follows
TextAfterConsumed(line) ==
    LET c == FirstAt(line, MarkerConsumed, 1)
        from == c + Len(MarkerConsumed)
        o == FirstAt(line, SeparatorOf, from)
        k == FirstAt(line, MarkerConsumed, from)
        stop == IF o = 0 /\ k = 0 THEN Len(line) + 1
                ELSE IF o = 0 THEN k
                ELSE IF k = 0 THEN o
                ELSE IF o < k THEN o ELSE k
    IN  IF c = 0 THEN None ELSE Some(Between(line, from, stop - 1))

\* what a text parses to as an unsigned integer, surrounding blanks aside
NumberIn(text) ==
    IF text = None THEN [kind |-> "Err"] ELSE parse_u64(trim(text.value))

\* the number of the first line, in log order, that holds both markers and
\* whose text parses; 0 when no line does
FirstParsing(Text(_)) ==
    LET good == {i \in DOMAIN ReadLogs :
                    /\ HasBothMarkers(ReadLogs[i])
                    /\ NumberIn(Text(ReadLogs[i])).kind = "Ok"}
    IN  IF good = {} THEN 0
        ELSE NumberIn(Text(ReadLogs[CHOOSE i \in good : \A j \in good : i <= j])).value

\* C28 as stated: compute_units() returns the number of the first line, in
\* log order, whose text between the first "consumed" and the following "of"
\* parses as an unsigned integer; marker lines that do not parse are skipped,
\* and the result is 0 when no line parses.
C28_FirstLineParsingToOf ==
    ComputeUnitsRead => observed.value = FirstParsing(TextToOf)

\* C28, amended: compute_units() returns the number of the first line, in log
\* order, that holds both markers and whose text after the first "consumed",
\* up to the next "of" or "consumed" or to the end of the line when neither
\* follows, parses as an unsigned integer; marker lines that do not parse are
\* skipped rather than ending the scan, the result is neither the sum nor the
\* last of the values, and it is 0 when no line parses.
C28_FirstLineParsing ==
    ComputeUnitsRead => observed.value = FirstParsing(TextAfterConsumed)

\* a marker line without a number, then two lines with different numbers: the
\* first is skipped and the second line's number is returned, not the third's
\* and not the sum
C28_Witness ==
    /\ ComputeUnitsRead
    /\ ReadLogs = <<LineNoNumber, LineConsumed7, LineConsumed12345>>
    /\ observed.value = 7

\* C29: the operation name a successful result carries depends only on the
\* entry point: the builder's execute attaches the builder's instruction
\* name, the context's execute the instruction name it was given, and
\* send_instruction and send_instructions none; an error value has no
\* operation name.
C29_NameByEntryPoint ==
    call # None
        => /\ ret.kind = "TransactionResult"
                => /\ call.entry = "InstructionBuilder::execute"
                        => ret.instruction_name = Some(hist.new[2])
                   /\ call.entry = "execute"
                        => \E n \in {"make", "take"} :
                              /\ Calls(sent[1].instructions[1], n)
                              /\ ret.instruction_name = Some(n)
                   /\ call.entry \in {"send_instruction", "send_instructions"}
                        => ret.instruction_name = None
           /\ ret.kind # "TransactionResult"
                => /\ ret.kind \in {"BuildError", "ExecutionFailed"}
                   /\ DOMAIN ret = {"kind", "msg"}

\* a take accepted through the context's execute: the result carries "take"
C29_Witness ==
    /\ call # None
    /\ call.entry = "execute"
    /\ ret.kind = "TransactionResult"
    /\ Calls(sent[1].instructions[1], "take")
    /\ ret.instruction_name = Some("take")
    /\ ret.inner.logs = <<LogTake>>

\* what the token accounts of the set hold together in an environment
RECURSIVE HeldBy(_, _)
HeldBy(env, accounts) ==
    IF accounts = {} THEN 0
    ELSE LET a == CHOOSE x \in accounts : TRUE
         IN  env.token[a] + HeldBy(env, accounts \ {a})

\* the total of a mint over all token accounts of an environment
TotalOf(env, mint) == HeldBy(env, {a \in DOMAIN env.token : a[3] = mint[3]})

\* the token accounts of the escrow flow: the maker's, the taker's and the vaults
FlowAccounts ==
    {get_associated_token_address(w, m) : w \in {Maker, Taker}, m \in {MintA, MintB}}
    \cup {get_associated_token_address(find_pda(Maker, s), MintA) : s \in Seeds}

\* C30: across any sequence of accepted and rejected make and take
\* submissions the total of each mint over the maker's, the taker's and the
\* vaults' token accounts stays what it was at the start; make and take only
\* move tokens between these accounts.
C30_TokensConserved ==
    /\ DOMAIN svm.token \subseteq FlowAccounts
    /\ \A a \in DOMAIN svm.token : svm.token[a] \in Nat
    /\ TotalOf(svm, MintA) = TotalOf(InitBatchSvm, MintA)
    /\ TotalOf(svm, MintB) = TotalOf(InitBatchSvm, MintB)
    /\ call # None
          => /\ TotalOf(call.after, MintA) = TotalOf(call.before, MintA)
             /\ TotalOf(call.after, MintB) = TotalOf(call.before, MintB)

\* two escrows were made and taken, and a third make asking for more than the
\* maker has left was rejected: every token is with the maker or the taker
C30_Witness ==
    /\ call # None
    /\ ret.kind = "ExecutionFailed"
    /\ Len(sent) = 1
    /\ Calls(sent[1].instructions[1], "make")
    /\ DOMAIN svm.escrow = {}
    /\ Holding(svm, get_associated_token_address(Maker, MintA)) = 1
    /\ Holding(svm, get_associated_token_address(Taker, MintA)) = 3
    /\ Holding(svm, get_associated_token_address(Maker, MintB)) = 2
    /\ Holding(svm, get_associated_token_address(Taker, MintB)) = 0
    /\ TotalOf(svm, MintA) = MakerBatchA
    /\ TotalOf(svm, MintB) = TakerBatchB

====
